---- MODULE Spec2Model ----
(***************************************************************************)
(* Model of the retrieval decision engine of eino-rag:                     *)
(*   - IntelligentQueryRouter (src/intelligent_query_router.go): query     *)
(*     analysis, strategy selection, dispatch with fallback, the combined  *)
(*     merge, post-processing and the route statistics;                    *)
(*   - HybridRetrievalModule.HybridSearch (src/hybrid_retrieval.go): the   *)
(*     round-robin merge of the dual-level and the vector results.         *)
(*                                                                         *)
(* Conventions.                                                            *)
(*  - A Go string that the code inspects character by character (a query)  *)
(*    is a sequence of characters; each Chinese character is written as an *)
(*    ASCII token (its pinyin, with a suffix where two characters share a  *)
(*    reading).  strings.Contains works on bytes, and UTF-8 is             *)
(*    self-synchronising, so containment of byte strings is containment of *)
(*    character sequences.                                                 *)
(*  - A float64 ratio count/total is the exact fraction in lowest terms,   *)
(*    <<n, d>>: for the small integers of the model two quotients are the  *)
(*    same float64 exactly when they are the same fraction.                *)
(*  - Scores are in hundredths (0.9 is 90).                                *)
(***************************************************************************)
EXTENDS Integers, Sequences, FiniteSets, TLC

VARIABLES
    routeStats,   \* IntelligentQueryRouter.routeStats (shared, no lock)
    pc,           \* per goroutine: the statement it is at
    loc,          \* per goroutine: the locals of the call it is in
    ncalls,       \* per goroutine: the number of calls it has started
    routed,       \* per goroutine: the number of RouteQuery calls started
    inputs,       \* the queries, topK values and store contents of the run
    arg,          \* the inputs of a pure function under check
    res,          \* the result of the pure function applied to arg
    index,        \* the GraphIndexingModule: its stores and key maps
    resultChan,   \* the channel GenerateAdaptiveAnswerStream sends on
    milvus        \* the MilvusIndexConstructionModule and its collection

vars == <<routeStats, pc, loc, ncalls, routed, inputs, arg, res, index, resultChan, milvus>>

----------------------------------------------------------------------------
(* Bounds of the model *)

\* goroutines calling the router concurrently
NumProcs == 2
\* calls each goroutine makes
MaxCalls == 2
\* cue words and filler words concatenated into one analysed query
MaxQueryWords == 4
\* length of each retrieval result list handed to a merge
MaxDocs == 2
\* largest topK a caller passes
MaxTopK == 4

\* the largest absolute value of a max_depth the LLM returns
MaxLLMDepth == 4

\* the calls made on one GraphIndexingModule
MaxIndexOps == 3

\* the paths one graph traversal returns
MaxPaths == 3

\* largest maxRetries a caller of the stream generation passes
MaxRetries == 3

\* the messages one stream delivers before it ends
MaxChunks == 2

\* capacity of the result channel
ChanCap == 1

\* the calls made on one MilvusIndexConstructionModule
MaxMilvusOps == 3

\* the updateRouteStats calls of a run
MaxUpdates == 4

\* the entities passed to one CreateEntityKeyValues call
MaxEntities == 2

\* the relationships passed to one CreateRelationKeyValues call
MaxRelations == 2

Procs == 1..NumProcs

----------------------------------------------------------------------------
(* Generic helpers *)

Min(a, b) == IF a < b THEN a ELSE b

Max(a, b) == IF a > b THEN a ELSE b

RECURSIVE GCD(_, _)
GCD(a, b) == IF b = 0 THEN a ELSE GCD(b, a % b)

\* float64(n) / float64(d) for d > 0, as a fraction in lowest terms
Ratio(n, d) == LET g == GCD(n, d) IN <<n \div g, d \div g>>

\* the float64 zero value
ZeroRatio == <<0, 1>>

\* bitwise exclusive or of two naturals (Go's a ^ b on non-negative ints)
RECURSIVE Xor(_, _)
Xor(a, b) ==
    IF a = 0 THEN b
    ELSE IF b = 0 THEN a
    ELSE ((a + b) % 2) + 2 * Xor(a \div 2, b \div 2)

\* m with key k set to v (a Go map assignment m[k] = v)
Put(m, k, v) == [x \in (DOMAIN m) \cup {k} |-> IF x = k THEN v ELSE m[x]]

\* strings.Contains(s, sub) on character sequences
Contains(s, sub) ==
    \E i \in 1..(Len(s) - Len(sub) + 1) : SubSeq(s, i, i + Len(sub) - 1) = sub

\* the concatenation of a sequence of sequences
RECURSIVE Concat(_)
Concat(ss) == IF ss = <<>> THEN <<>> ELSE Head(ss) \o Concat(Tail(ss))

----------------------------------------------------------------------------
(* The result channel of the stream generation: the messages buffered, the  *)
(* number of close calls, and whether a send followed a close (in Go, a     *)
(* panic).  last is the kind of the message sent last.                      *)
NoChan == [buf |-> <<>>, closed |-> 0, last |-> "none", sendAfterClose |-> FALSE]

\* the module right after NewMilvusIndexConstructionModule, lines 1287-1288,
\* and whether the collection exists in the store
NewMilvusIndexConstructionModule ==
    [collectionCreated |-> FALSE, indexCreated |-> FALSE, exists |-> FALSE]

----------------------------------------------------------------------------
(* Query analysis: IntelligentQueryRouter.ruleBasedAnalysis *)

HybridTraditional == "hybrid_traditional"

GraphRAG == "graph_rag"

Combined == "combined"

\* complexityKeywords: wei-shen-me, ru-he, guan-xi, ying-xiang, yuan-yin,
\* bi-jiao, qu-bie, fen-xi, tui-li
complexityKeywords ==
    << <<"wei", "shen", "me">>, <<"ru", "he_how">>, <<"guan", "xi_tie">>,
       <<"ying", "xiang_sound">>, <<"yuan", "yin">>, <<"bi", "jiao">>,
       <<"qu", "bie">>, <<"fen", "xi_split">>, <<"tui", "li">> >>

\* relationKeywords: pei, da-pei, zu-he, xiang-guan, lian-xi, lian-jie,
\* shi-he, pi-pei
relationKeywords ==
    << <<"pei">>, <<"da", "pei">>, <<"zu", "he_join">>,
       <<"xiang_mutual", "guan">>, <<"lian_ally", "xi_tie">>,
       <<"lian_link", "jie">>, <<"shi", "he_join">>, <<"pi", "pei">> >>

\* the number of keywords of the list that the query contains
CountHits(query, keywords) ==
    Cardinality({i \in 1..Len(keywords) : Contains(query, keywords[i])})

\* len(strings.Fields(query)): the maximal runs of non-space characters
FieldsCount(query) ==
    Cardinality({i \in 1..Len(query) :
        /\ query[i] # "sp"
        /\ (i = 1 \/ query[i - 1] = "sp")})

\* r > num/den for a ratio r and a decimal literal num/den
RatioGt(r, num, den) == r[1] * den > num * r[2]

\* the strategy recommendation of ruleBasedAnalysis, lines 168-180:
\* strategy and confidence (in hundredths)
SelectStrategyLoose(complexity, relationIntensity) ==
    IF RatioGt(complexity, 3, 10) \/ RatioGt(relationIntensity, 3, 10)
    THEN [strategy |-> Combined, confidence |-> 70]
    ELSE [strategy |-> HybridTraditional, confidence |-> 60]

SelectStrategy(complexity, relationIntensity) ==
    IF RatioGt(complexity, 1, 2) \/ RatioGt(relationIntensity, 1, 2)
    THEN [strategy |-> GraphRAG, confidence |-> 80]
    ELSE IF RatioGt(complexity, 3, 10) \/ RatioGt(relationIntensity, 3, 10)
    THEN [strategy |-> Combined, confidence |-> 70]
    ELSE [strategy |-> HybridTraditional, confidence |-> 60]

ruleBasedAnalysis(query) ==
    LET complexityCount == CountHits(query, complexityKeywords)
        complexity == Ratio(complexityCount, Len(complexityKeywords))
        relationCount == CountHits(query, relationKeywords)
        relationIntensity == Ratio(relationCount, Len(relationKeywords))
        sel == SelectStrategy(complexity, relationIntensity)
    IN  [ QueryComplexity       |-> complexity,
          RelationshipIntensity |-> relationIntensity,
          ReasoningRequired     |-> (RatioGt(complexity, 3, 10)
                                     \/ RatioGt(relationIntensity, 3, 10)),
          EntityCount           |-> FieldsCount(query),
          RecommendedStrategy   |-> sel.strategy,
          Confidence            |-> sel.confidence ]

\* AnalyzeQuery: the LLM analysis is not implemented, the call is the
\* rule-based analysis and its error is always nil
AnalyzeQuery(query) == ruleBasedAnalysis(query)

(* Queries *)

\* words a query is put together from: the cue words and some fillers
\* (ji-rou "chicken", shen-me "what", shu-cai "vegetable", "?", a space)
Vocabulary ==
    complexityKeywords \o relationKeywords \o
    << <<"ji", "rou">>, <<"shen", "me">>, <<"shu", "cai">>, <<"qmark">>,
       <<"sp">> >>

\* the strictly increasing index sequences of at most k indices from lo..n
RECURSIVE Picks(_, _, _)
Picks(k, lo, n) ==
    IF k = 0 THEN {<<>>}
    ELSE {<<>>} \cup
         UNION {{<<i>> \o s : s \in Picks(k - 1, i + 1, n)} : i \in lo..n}

\* the words picked, or the same words in reverse order
QueryOf(pick, reversed) ==
    LET n == Len(pick)
        words == [j \in 1..n |->
                    Vocabulary[IF reversed THEN pick[n + 1 - j] ELSE pick[j]]]
    IN  Concat(words)

\* the queries of at most k words
AnalysisQueries(k) ==
    {QueryOf(s, r) : s \in Picks(k, 1, Len(Vocabulary)), r \in BOOLEAN}

\* "ji rou pei shen me shu cai ?": the test query of the README
ScenarioAQuery ==
    <<"ji", "rou", "pei", "shen", "me", "shu", "cai", "qmark">>

\* a query without cue, one with three relation cues (da-pei holds pei),
\* one with five complexity cues
PlainQuery == <<"ji", "rou", "sp", "shu", "cai">>

ThreeCueQuery == <<"ji", "rou", "da", "pei", "pi", "pei", "shu", "cai">>

FiveCueQuery ==
    <<"wei", "shen", "me", "ru", "he_how", "bi", "jiao", "fen", "xi_split",
      "tui", "li">>

\* "ji rou shi he shu cai": the single cue shi-he
OneCueQuery == <<"ji", "rou", "shi", "he_join", "shu", "cai">>

RouterQueries ==
    {ScenarioAQuery, OneCueQuery, PlainQuery, ThreeCueQuery, FiveCueQuery}

----------------------------------------------------------------------------
(* Documents *)

(* A string whose characters the code does not inspect one by one (the      *)
(* content of a document) is a record: its length in bytes, its first byte  *)
(* (0 when it is empty) and its text.  That is what hashString reads.       *)
Str(len, first, text) == [len |-> len, first |-> first, text |-> text]

EmptyStr == Str(0, 0, "")

\* s + suffix for a suffix of n bytes
StrAppend(s, n, suffix) ==
    IF n = 0 THEN s
    ELSE Str(s.len + n, IF s.len = 0 THEN 10 ELSE s.first, s.text \o suffix)

(* An entry of HybridRetrievalModule.entityCache as buildGraphIndex stores  *)
(* it (lines 196-208), with the number of named neighbours the graph store  *)
(* returns for the node.  Content starts with the byte 229, the first byte  *)
(* of "ming cheng: " (name) in UTF-8.  A missing name is Nil.               *)
Nil == "<nil>"

CacheEntry(nodeID, name, content, neighbours) ==
    [ Content        |-> content,
      NodeID         |-> nodeID,
      NodeType       |-> "Recipe",
      RelevanceScore |-> 80,
      RetrievalLevel |-> "entity",
      Metadata       |-> [name |-> name],
      neighbours     |-> neighbours ]

\* the entities of the graph index: n1 has no neighbour, n2 and n3 have
\* three, n3 has a long content, n4 has no name, category or description,
\* n5 has a single named neighbour
entityCache ==
    [ n1 |-> CacheEntry("n1", "A", Str(20, 229, "name:A"), 0),
      n2 |-> CacheEntry("n2", "B", Str(30, 229, "name:B"), 3),
      n3 |-> CacheEntry("n3", "C", Str(120, 229, "name:C"), 3),
      n4 |-> CacheEntry("n4", Nil, EmptyStr, 0),
      n5 |-> CacheEntry("n5", "E", Str(20, 229, "name:E"), 1) ]

NodeIDs == DOMAIN entityCache

\* the result EntityLevelRetrieval builds for a cache entry, lines 367-393:
\* the content with the names of at most 2 neighbours (12 bytes each)
EntityResult(entity) ==
    LET n == Min(entity.neighbours, 2)
    IN  [ Content        |-> StrAppend(entity.Content, 12 * n, "+nb2"),
          NodeID         |-> entity.NodeID,
          NodeType       |-> entity.NodeType,
          RelevanceScore |-> 90,
          RetrievalLevel |-> "entity",
          Metadata       |-> Put(Put(entity.Metadata,
                                     "matched_keyword", "kw"),
                                 "source", "graph_index") ]

\* recipe_name as the conversions compute it (lines 724-729, 793-798)
RecipeName(metadata) ==
    IF "name" \in DOMAIN metadata /\ metadata["name"] # Nil
    THEN metadata["name"] ELSE "unknown"

(* A schema.Document: ID, Content, MetaData.  origin is a history field,    *)
(* not a field of the Go struct: the NodeID of the result (or the ID of the *)
(* path) the document was converted from.                                   *)
Document(id, content, metadata, origin) ==
    [ID |-> id, Content |-> content, MetaData |-> metadata, origin |-> origin]

\* DualLevelRetrieval, lines 716-747: the first topK unique results as
\* documents
DualDocument(result) ==
    Document("", result.Content,
        Put(Put(Put(Put(Put(Put(result.Metadata,
            "node_id", result.NodeID),
            "node_type", result.NodeType),
            "retrieval_level", result.RetrievalLevel),
            "relevance_score", result.RelevanceScore),
            "recipe_name", RecipeName(result.Metadata)),
            "search_type", "dual_level"),
        result.NodeID)

DualLevelDocuments(uniqueResults, topK) ==
    [i \in 1..Max(0, Min(Len(uniqueResults), topK)) |->
        DualDocument(uniqueResults[i])]

\* the result TopicLevelRetrieval builds for a cache entry whose category
\* matches, lines 520-536: the content after a line of 14 bytes that names
\* the topic (first byte 228)
TopicResult(entity) ==
    [ Content        |-> Str(entity.Content.len + 14, 228,
                             "topic:kw " \o entity.Content.text),
      NodeID         |-> entity.NodeID,
      NodeType       |-> entity.NodeType,
      RelevanceScore |-> 85,
      RetrievalLevel |-> "topic",
      Metadata       |-> [matched_keyword |-> "kw",
                          source |-> "category_match"] ]

\* the result neo4jEntityLevelSearch (lines 488-500, score 0.7) or
\* neo4jTopicLevelSearch (lines 648-662, score 0.75) builds for a node
SupplementResult(entity, level) ==
    [ Content        |-> entity.Content,
      NodeID         |-> entity.NodeID,
      NodeType       |-> entity.NodeType,
      RelevanceScore |-> IF level = "entity" THEN 70 ELSE 75,
      RetrievalLevel |-> level,
      Metadata       |-> [name |-> entity.Metadata.name,
                          matched_keyword |-> "kw",
                          source |-> "neo4j_fallback"] ]

\* sort.Slice with RelevanceScore descending (lines 409-411, 554-556,
\* 705-707): one step of the insertion sort
RECURSIVE InsertByRelevance(_, _)
InsertByRelevance(sorted, result) ==
    IF sorted = <<>> THEN <<result>>
    ELSE LET n == Len(sorted)
         IN  IF result.RelevanceScore > sorted[n].RelevanceScore
             THEN Append(InsertByRelevance(SubSeq(sorted, 1, n - 1), result),
                         sorted[n])
             ELSE Append(sorted, result)

RECURSIVE SortByRelevance(_, _)
SortByRelevance(sorted, rest) ==
    IF rest = <<>> THEN sorted
    ELSE SortByRelevance(InsertByRelevance(sorted, Head(rest)), Tail(rest))

\* lines 396-416 and 541-561: the results of the index, the supplement of
\* the store when they are fewer than topK (the store returns at most
\* LIMIT topK - len(results) rows), sorted and cut to topK
LevelRetrieval(indexResults, storeResults, topK) ==
    LET n == Len(indexResults)
        results ==
            IF n < topK
            THEN indexResults
                 \o SubSeq(storeResults, 1, Min(Len(storeResults), topK - n))
            ELSE indexResults
        sorted == SortByRelevance(<<>>, results)
    IN  IF Len(sorted) > topK THEN SubSeq(sorted, 1, topK) ELSE sorted

UniqueResultsUnfiltered(seenNodes, allResults) == allResults

\* lines 709-714: the first result of every NodeID
RECURSIVE UniqueResults(_, _)
UniqueResults(seenNodes, allResults) ==
    IF allResults = <<>> THEN <<>>
    ELSE LET result == Head(allResults)
         IN  IF result.NodeID \in seenNodes
             THEN UniqueResults(seenNodes, Tail(allResults))
             ELSE <<result>> \o UniqueResults(seenNodes \cup {result.NodeID},
                                              Tail(allResults))

\* DualLevelRetrieval, lines 697-750, on the results of the two levels
DualLevelRetrieval(entityResults, topicResults, topK) ==
    LET allResults == entityResults \o topicResults
        sorted == SortByRelevance(<<>>, allResults)
    IN  DualLevelDocuments(UniqueResults({}, sorted), topK)

\* VectorSearchEnhanced, lines 791-813: the metadata of the cache entry
\* plus recipe_name, score and search_type; no node_id
VectorDocument(result) ==
    Document("", result.Content,
        Put(Put(Put(result.Metadata,
            "recipe_name", RecipeName(result.Metadata)),
            "score", result.RelevanceScore),
            "search_type", "vector_enhanced"),
        result.NodeID)

\* lines 766-789: the matching entries in map order, until topK results are
\* collected (the test follows the append).  neighbors[:3] of a slice of 1
\* or 2 appended names is out of range: the call panics.
VectorMockResults(matches, topK) ==
    [i \in 1..Min(Len(matches), Max(topK, 1)) |->
        [ Content        |-> StrAppend(matches[i].Content,
                                       12 * matches[i].neighbours, "+nb3"),
          NodeID         |-> matches[i].NodeID,
          NodeType       |-> matches[i].NodeType,
          RelevanceScore |-> 80,
          RetrievalLevel |-> "vector",
          Metadata       |-> matches[i].Metadata ]]

VectorSearchPanics(matches, topK) ==
    \E i \in 1..Min(Len(matches), Max(topK, 1)) :
        matches[i].neighbours \in {1, 2}

VectorSearchEnhanced(matches, topK) ==
    LET mockResults == VectorMockResults(matches, topK)
    IN  [i \in 1..Len(mockResults) |-> VectorDocument(mockResults[i])]

----------------------------------------------------------------------------
(* HybridRetrievalModule.HybridSearch: the round-robin merge *)

\* lines 893-898 and 917-922: the key a document is deduplicated by.  i is
\* the 0-based position in its list.
HybridDocID(doc, prefix, i) ==
    IF "node_id" \in DOMAIN doc.MetaData
    THEN doc.MetaData["node_id"]
    ELSE prefix \o ToString(i)

\* lines 905-909
DualFinalScore(metadata) ==
    IF "relevance_score" \in DOMAIN metadata
    THEN metadata["relevance_score"] ELSE 0

\* lines 929-945: a score above 1.0 gives 0, else 1.0 - score
VectorFinalScore(metadata) ==
    IF "score" \in DOMAIN metadata
    THEN (IF metadata["score"] <= 100 THEN 100 - metadata["score"] ELSE 0)
    ELSE 0

\* one document offered to the merge, lines 891-912 and 915-948
HybridOffer(acc, doc, prefix, method, finalScore, i) ==
    LET docID == HybridDocID(doc, prefix, i)
    IN  IF docID \in acc.seen THEN acc
        ELSE [ seen   |-> acc.seen \cup {docID},
               merged |-> Append(acc.merged,
                   [doc EXCEPT !.MetaData =
                       Put(Put(Put(@,
                           "search_method", method),
                           "round_robin_order", Len(acc.merged)),
                           "final_score", finalScore)]) ]

\* the loop of lines 889-949 from position i (0-based) on
RECURSIVE HybridLoop(_, _, _, _, _)
HybridLoop(acc, dualDocs, vectorDocs, i, maxLen) ==
    IF i >= maxLen THEN acc
    ELSE
        LET a1 == IF i < Len(dualDocs)
                  THEN HybridOffer(acc, dualDocs[i + 1], "dual_",
                           "dual_level",
                           DualFinalScore(dualDocs[i + 1].MetaData), i)
                  ELSE acc
            a2 == IF i < Len(vectorDocs)
                  THEN HybridOffer(a1, vectorDocs[i + 1], "vector_",
                           "vector_enhanced",
                           VectorFinalScore(vectorDocs[i + 1].MetaData), i)
                  ELSE a1
        IN  HybridLoop(a2, dualDocs, vectorDocs, i + 1, maxLen)

\* lines 951-955 (and 326-328): docs[:topK] when len(docs) > topK, for
\* topK >= 0
Truncate(docs, topK) == IF Len(docs) > topK THEN SubSeq(docs, 1, topK) ELSE docs

HybridMerge(dualDocs, vectorDocs, topK) ==
    LET maxLen == Max(Len(dualDocs), Len(vectorDocs))
        acc == HybridLoop([seen |-> {}, merged |-> <<>>],
                          dualDocs, vectorDocs, 0, maxLen)
    IN  Truncate(acc.merged, topK)

(* The outcome of a call: status "ok" (a nil error), "err" (a non-nil       *)
(* error) or "panic" (the call does not return), and the documents.         *)
(* A Go slice that was declared with var and only appended to is nil as    *)
(* long as it is empty; isNil tells a nil list from an empty one.           *)
Outcome(status, docs) ==
    [status |-> status, docs |-> docs, isNil |-> docs = <<>>]

(* The graph index and the stores as one retrieval call sees them:          *)
(*   unique  - the deduplicated, sorted results of the dual-level retrieval *)
(*   matches - the cache entries the vector search matches, in map order    *)
(*   graph   - the documents of the graph retrieval, before the ranking     *)
(*   graphErr - whether the graph retrieval returns an error                *)
\* HybridSearch(ctx, query, topK), lines 863-960: its error is always nil
HybridSearch(env, topK) ==
    IF VectorSearchPanics(env.matches, topK)
    THEN Outcome("panic", <<>>)
    ELSE
        LET dualDocs == DualLevelDocuments(env.unique, topK)
            vectorDocs == VectorSearchEnhanced(env.matches, topK)
        IN  IF topK < 0
            THEN Outcome("panic", <<>>)
            ELSE Outcome("ok", HybridMerge(dualDocs, vectorDocs, topK))

----------------------------------------------------------------------------
(* GraphRAGRetrieval.GraphRAGSearch, as the router sees it *)

\* pathsToDocuments, lines 810-843: the document of the i-th path (0-based)
PathDocument(i, content, score) ==
    Document("path_" \o ToString(i), content,
        [ search_type     |-> "graph_path",
          relevance_score |-> score,
          recipe_name     |-> "graph" ],
        "path_" \o ToString(i))

\* the query types, lines 22-31
EntityRelation == "entity_relation"

MultiHop == "multi_hop"

Subgraph == "subgraph"

PathFinding == "path_finding"

Clustering == "clustering"

QueryTypes == {EntityRelation, MultiHop, Subgraph, PathFinding, Clustering}

\* GraphQuery, lines 38-46: the fields the retrieval reads
GraphQuery(queryType, sourceEntities, maxDepth, maxNodes) ==
    [ QueryType      |-> queryType,
      SourceEntities |-> sourceEntities,
      MaxDepth       |-> maxDepth,
      MaxNodes       |-> maxNodes ]

(* What llmClient.Generate and json.Unmarshal make of one call, line 338    *)
(* and line 351:                                                            *)
(*   "error"       - Generate returns an error (a timeout included)         *)
(*   "unparseable" - the content is not the JSON of a QueryAnalysisResult   *)
(*   "empty"       - the content is the empty string, which is no JSON      *)
(*   "parsed"      - Unmarshal filled result; an absent field is zero       *)
LLMError == [kind |-> "error"]

LLMUnparseable == [kind |-> "unparseable"]

LLMEmpty == [kind |-> "empty"]

LLMParsed(queryType, sourceEntities, maxDepth) ==
    [ kind            |-> "parsed",
      query_type      |-> queryType,
      source_entities |-> sourceEntities,
      max_depth       |-> maxDepth ]

\* the plan of lines 342-347 and 354-359
DefaultPlanMultiHop(query) == GraphQuery(MultiHop, <<query>>, 3, 50)

DefaultPlan(query) == GraphQuery(Subgraph, <<query>>, 2, 50)

\* the switch of lines 363-375
QueryTypeOf(name) == IF name \in QueryTypes THEN name ELSE Subgraph

\* lines 377-380
DepthOf(maxDepth) == IF maxDepth = 0 THEN 2 ELSE maxDepth

\* UnderstandGraphQuery, lines 290-390.  formatErr: template.Format
\* returns an error (line 333); llm: the outcome of the LLM call.
UnderstandGraphQuery(formatErr, llm, query) ==
    IF formatErr THEN [status |-> "err", plan |-> Nil]
    ELSE IF llm.kind = "error"
    THEN [status |-> "ok", plan |-> DefaultPlan(query)]
    ELSE IF llm.kind \in {"unparseable", "empty"}
    THEN [status |-> "ok", plan |-> DefaultPlan(query)]
    ELSE [status |-> "ok",
          plan |-> GraphQuery(QueryTypeOf(llm.query_type),
                              llm.source_entities,
                              DepthOf(llm.max_depth), 50)]

\* MultiHopTraversal, lines 414-441: the variable-length pattern
\* [*1..%d] of the path query, built from graphQuery.MaxDepth
PathPattern(graphQuery) == [lo |-> 1, hi |-> graphQuery.MaxDepth]

\* ExtractKnowledgeSubgraph, lines 512-539: the pattern [r*1..%d] and the
\* two slices [0..%d] of the subgraph query
SubgraphPattern(graphQuery) ==
    [lo |-> 1, hi |-> graphQuery.MaxDepth, nodes |-> graphQuery.MaxNodes]

\* lines 639-642: return []*schema.Document{}, nil
NoDriverError == [status |-> "err", docs |-> <<>>, isNil |-> TRUE]

NoDriverResult == [status |-> "ok", docs |-> <<>>, isNil |-> FALSE]

\* lines 936-949: the relevance_score of the metadata, 0 when it is absent
ScoreOf(doc) ==
    IF "relevance_score" \in DOMAIN doc.MetaData
    THEN doc.MetaData.relevance_score ELSE 0

\* one step of the insertion sort: doc moves left past every document whose
\* score is less than its own
RECURSIVE InsertByScore(_, _)
InsertByScore(sorted, doc) ==
    IF sorted = <<>> THEN <<doc>>
    ELSE LET n == Len(sorted)
         IN  IF ScoreOf(doc) > ScoreOf(sorted[n])
             THEN Append(InsertByScore(SubSeq(sorted, 1, n - 1), doc),
                         sorted[n])
             ELSE Append(sorted, doc)

RECURSIVE SortByScore(_, _)
SortByScore(sorted, rest) ==
    IF rest = <<>> THEN sorted
    ELSE SortByScore(InsertByScore(sorted, Head(rest)), Tail(rest))

rankByGraphRelevanceUnsorted(documents) == documents

\* rankByGraphRelevance, lines 934-955: sort.Slice with scoreI > scoreJ,
\* which is an insertion sort for the at most 12 documents modelled here
rankByGraphRelevance(documents) == SortByScore(<<>>, documents)

\* lines 652-682: the documents of the traversal the plan selects; no
\* branch serves a clustering plan
GraphResults(env, graphQuery) ==
    IF graphQuery.QueryType = Clustering THEN <<>>
    ELSE rankByGraphRelevance(env.graph)

\* lines 636-693: without a driver the empty list; an error of the query
\* understanding is returned; else the ranked documents are cut to topK
\* (results[:topK] panics for topK < 0)
GraphRAGSearch(env, query, topK) ==
    IF ~env.driver THEN NoDriverResult
    ELSE
        LET u == UnderstandGraphQuery(env.graphErr, env.llm, query)
        IN  IF u.status = "err" THEN Outcome("err", <<>>)
            ELSE
                LET results == GraphResults(env, u.plan)
                IN  IF topK < 0 THEN Outcome("panic", <<>>)
                    ELSE [ status |-> "ok",
                           docs   |-> SubSeq(results, 1,
                                             Min(topK, Len(results))),
                           isNil  |-> results = <<>> ]

----------------------------------------------------------------------------
(* IntelligentQueryRouter.executeCombinedSearch *)

\* hashString, lines 462-465: fmt.Sprintf("%x", len(s)^int(s[0])).  The hex
\* rendering is one-to-one, the hash is the number.  s[0] of an empty string
\* is out of range.
hashString(s) == Xor(s.len, s.first)

\* doc.Content[:min(100, len(doc.Content))]
ContentPrefix(content) ==
    [content EXCEPT !.len = Min(100, content.len)]

\* the key the combined merge deduplicates by, lines 299 and 313
CombinedKey(doc) == hashString(ContentPrefix(doc.Content))

\* one document offered to the combined merge, lines 297-308 and 311-322
CombinedOffer(acc, doc, source) ==
    IF acc.panic THEN acc
    ELSE IF doc.Content.len = 0 THEN [acc EXCEPT !.panic = TRUE]
    ELSE
        LET contentHash == CombinedKey(doc)
        IN  IF contentHash \in acc.seen THEN acc
            ELSE [acc EXCEPT
                    !.seen = @ \cup {contentHash},
                    !.merged = Append(@, [doc EXCEPT !.MetaData =
                                   Put(@, "search_source", source)])]

\* the loop of lines 295-323 from position i (0-based) on
RECURSIVE CombinedLoop(_, _, _, _, _)
CombinedLoop(acc, graphDocs, traditionalDocs, i, maxLen) ==
    IF i >= maxLen THEN acc
    ELSE
        LET a1 == IF i < Len(graphDocs)
                  THEN CombinedOffer(acc, graphDocs[i + 1], "graph_rag")
                  ELSE acc
            a2 == IF i < Len(traditionalDocs)
                  THEN CombinedOffer(a1, traditionalDocs[i + 1], "traditional")
                  ELSE a1
        IN  CombinedLoop(a2, graphDocs, traditionalDocs, i + 1, maxLen)

\* lines 285-330
CombinedMerge(graphDocs, traditionalDocs, topK) ==
    LET maxLen == Max(Len(traditionalDocs), Len(graphDocs))
        acc == CombinedLoop([seen |-> {}, merged |-> <<>>, panic |-> FALSE],
                            graphDocs, traditionalDocs, 0, maxLen)
    IN  IF acc.panic \/ topK < 0 THEN Outcome("panic", <<>>)
        ELSE Outcome("ok", Truncate(acc.merged, topK))

TraditionalKRoundedUp(topK) == (topK + 1) \div 2

\* lines 264-268
TraditionalK(topK) == IF topK \div 2 < 1 THEN 1 ELSE topK \div 2

GraphK(topK) == topK - TraditionalK(topK)

\* lines 260-331: both retrievals, an error of either replaced by an empty
\* list, then the merge; the error returned is always nil
executeCombinedSearch(env, query, topK) ==
    LET t == HybridSearch(env, TraditionalK(topK))
        g == GraphRAGSearch(env, query, GraphK(topK))
    IN  IF t.status = "panic" \/ g.status = "panic"
        THEN Outcome("panic", <<>>)
        ELSE CombinedMerge(IF g.status = "err" THEN <<>> ELSE g.docs,
                           IF t.status = "err" THEN <<>> ELSE t.docs, topK)

----------------------------------------------------------------------------
(* GraphIndexingModule: the key-value index of the graph.  A Go map is a    *)
(* function; a key that is absent is not in its DOMAIN.                     *)

EmptyMap == [x \in {} |-> x]

\* m[k], or the zero value def when k is absent
Lookup(m, k, def) == IF k \in DOMAIN m THEN m[k] ELSE def

\* m[k] = append(m[k], v)
AppendAt(m, k, v) == Put(m, k, Append(Lookup(m, k, <<>>), v))

\* strings.Join(parts, sep)
RECURSIVE Join(_, _)
Join(parts, sep) ==
    IF parts = <<>> THEN ""
    ELSE IF Len(parts) = 1 THEN parts[1]
    ELSE parts[1] \o sep \o Join(Tail(parts), sep)

\* NewGraphIndexingModule, lines 612-621
NewGraphIndexingModule ==
    [ entityKVStore   |-> EmptyMap,
      relationKVStore |-> EmptyMap,
      keyToEntities   |-> EmptyMap,
      keyToRelations  |-> EmptyMap ]

\* Recipe, Ingredient and CookingStep, lines 531-561
Recipe(nodeID, name, properties) ==
    [NodeID |-> nodeID, Name |-> name, Properties |-> properties]

Ingredient(nodeID, name, properties) ==
    [NodeID |-> nodeID, Name |-> name, Properties |-> properties]

CookingStep(nodeID, name, properties) ==
    [NodeID |-> nodeID, Name |-> name, Properties |-> properties]

\* Relationship, lines 564-568
Relationship(sourceID, relationType, targetID) ==
    [SourceID |-> sourceID, RelationType |-> relationType,
     TargetID |-> targetID]

\* the properties a content lists, each with its label, in the order of
\* the code: lines 640-654, 683-691 and 716-727
RecipeLabels ==
    << <<"description", "miaoshu: ">>, <<"category", "fenlei: ">>,
       <<"cuisineType", "caixi: ">>, <<"difficulty", "nandu: ">>,
       <<"cookingTime", "zhizuo shijian: ">> >>

IngredientLabels ==
    << <<"category", "leibie: ">>, <<"nutrition", "yingyang xinxi: ">>,
       <<"storage", "chucun fangshi: ">> >>

StepLabels ==
    << <<"description", "buzhou miaoshu: ">>, <<"order", "buzhou shunxu: ">>,
       <<"technique", "jiqiao: ">>, <<"time", "shijian: ">> >>

\* the content parts of the properties that exist
RECURSIVE PropParts(_, _)
PropParts(props, labels) ==
    IF labels = <<>> THEN <<>>
    ELSE (IF labels[1][1] \in DOMAIN props
          THEN <<labels[1][2] \o props[labels[1][1]]>> ELSE <<>>)
         \o PropParts(props, Tail(labels))

\* the EntityKeyValue of lines 657-666, 693-702 and 729-738
EntityKeyValue(entityID, entityName, title, labels, entityType, props) ==
    [ EntityName   |-> entityName,
      IndexKeys    |-> <<entityName>>,
      ValueContent |-> Join(<<title \o entityName>>
                            \o PropParts(props, labels), "\n"),
      EntityType   |-> entityType,
      Metadata     |-> [node_id |-> entityID, properties |-> props] ]

\* lines 630-666
RecipeKeyValue(recipe) ==
    EntityKeyValue(recipe.NodeID,
        IF recipe.Name = "" THEN "caipu_" \o recipe.NodeID ELSE recipe.Name,
        "caipin mingcheng: ", RecipeLabels, "Recipe", recipe.Properties)

\* lines 674-702
IngredientKeyValue(ingredient) ==
    EntityKeyValue(ingredient.NodeID,
        IF ingredient.Name = "" THEN "shicai_" \o ingredient.NodeID
        ELSE ingredient.Name,
        "shicai mingcheng: ", IngredientLabels, "Ingredient",
        ingredient.Properties)

\* lines 710-738: the name of a step is always derived from its id
StepKeyValue(step) ==
    EntityKeyValue(step.NodeID, "buzhou_" \o step.NodeID,
        "pengren buzhou: ", StepLabels, "CookingStep", step.Properties)

\* lines 668-669, 704-705 and 740-741: the store entry is replaced, the id
\* is appended to the list of the name
StoreEntity(idx, entityID, entityKV) ==
    [idx EXCEPT
        !.entityKVStore = Put(@, entityID, entityKV),
        !.keyToEntities = AppendAt(@, entityKV.EntityName, entityID)]

\* one of the three loops of CreateEntityKeyValues over the key-values of
\* its entities
RECURSIVE StoreEntities(_, _)
StoreEntities(idx, entityKVs) ==
    IF entityKVs = <<>> THEN idx
    ELSE StoreEntities(
            StoreEntity(idx, entityKVs[1].Metadata["node_id"], entityKVs[1]),
            Tail(entityKVs))

\* CreateEntityKeyValues, lines 625-746
CreateEntityKeyValues(idx, recipes, ingredients, cookingSteps) ==
    LET a == StoreEntities(idx,
                [i \in 1..Len(recipes) |-> RecipeKeyValue(recipes[i])])
        b == StoreEntities(a,
                [i \in 1..Len(ingredients) |->
                    IngredientKeyValue(ingredients[i])])
    IN  StoreEntities(b,
            [i \in 1..Len(cookingSteps) |-> StepKeyValue(cookingSteps[i])])

\* uniqueStrings, lines 1085-1097
RECURSIVE uniqueStrings(_)
uniqueStrings(strs) ==
    IF strs = <<>> THEN <<>>
    ELSE LET init == uniqueStrings(SubSeq(strs, 1, Len(strs) - 1))
             last == strs[Len(strs)]
         IN  IF \E i \in 1..Len(init) : init[i] = last THEN init
             ELSE Append(init, last)

\* generateRelationIndexKeys, lines 802-844.  enhancedKeys: the keys of
\* llmEnhanceRelationKeys, empty when the option is off or the LLM fails.
generateRelationIndexKeys(sourceEntity, targetEntity, relationType, enhancedKeys) ==
    LET themes ==
            IF relationType = "REQUIRES"
            THEN <<"shicai dapei", "pengren yuanliao",
                   sourceEntity.EntityName \o "_shicai",
                   targetEntity.EntityName>>
            ELSE IF relationType = "HAS_STEP"
            THEN <<"zhizuo buzhou", "pengren guocheng",
                   sourceEntity.EntityName \o "_buzhou", "zhizuo fangfa">>
            ELSE IF relationType = "BELONGS_TO_CATEGORY"
            THEN <<"caipin fenlei", "meishi leibie",
                   targetEntity.EntityName>>
            ELSE <<>>
    IN  uniqueStrings(<<relationType>> \o themes \o enhancedKeys)

\* fmt.Sprintf("rel_%d_%s_%s", i, rel.SourceID, rel.TargetID), line 754
RelationID(i, rel) ==
    "rel_" \o ToString(i) \o "_" \o rel.SourceID \o "_" \o rel.TargetID

\* the RelationKeyValue of lines 765-787
RelationKeyValue(relationID, rel, sourceEntity, targetEntity, indexKeys) ==
    [ RelationID   |-> relationID,
      IndexKeys    |-> indexKeys,
      ValueContent |->
          Join(<< "guanxi leixing: " \o rel.RelationType,
                  "yuan shiti: " \o sourceEntity.EntityName \o " ("
                      \o sourceEntity.EntityType \o ")",
                  "mubiao shiti: " \o targetEntity.EntityName \o " ("
                      \o targetEntity.EntityType \o ")" >>, "\n"),
      RelationType |-> rel.RelationType,
      SourceEntity |-> rel.SourceID,
      TargetEntity |-> rel.TargetID,
      Metadata     |-> [ source_name        |-> sourceEntity.EntityName,
                         target_name        |-> targetEntity.EntityName,
                         created_from_graph |-> TRUE ] ]

\* lines 792-794
RECURSIVE MapKeys(_, _, _)
MapKeys(keyMap, keys, id) ==
    IF keys = <<>> THEN keyMap
    ELSE MapKeys(AppendAt(keyMap, keys[1], id), Tail(keys), id)

\* the loop of CreateRelationKeyValues from relation i (0-based) on
RECURSIVE StoreRelations(_, _, _, _)
StoreRelations(idx, relationships, i, enhancedKeys) ==
    IF i >= Len(relationships) THEN idx
    ELSE
        LET rel == relationships[i + 1]
            known == /\ rel.SourceID \in DOMAIN idx.entityKVStore
                     /\ rel.TargetID \in DOMAIN idx.entityKVStore
        IN  IF ~known
            THEN StoreRelations(idx, relationships, i + 1, enhancedKeys)
            ELSE
                LET sourceEntity == idx.entityKVStore[rel.SourceID]
                    targetEntity == idx.entityKVStore[rel.TargetID]
                    indexKeys == generateRelationIndexKeys(sourceEntity,
                                     targetEntity, rel.RelationType,
                                     enhancedKeys)
                    relationID == RelationID(i, rel)
                    relationKV == RelationKeyValue(relationID, rel,
                                      sourceEntity, targetEntity, indexKeys)
                IN  StoreRelations(
                        [idx EXCEPT
                            !.relationKVStore = Put(@, relationID, relationKV),
                            !.keyToRelations =
                                MapKeys(@, indexKeys, relationID)],
                        relationships, i + 1, enhancedKeys)

\* CreateRelationKeyValues, lines 750-799
CreateRelationKeyValues(idx, relationships, enhancedKeys) ==
    StoreRelations(idx, relationships, 0, enhancedKeys)

\* the loops of rebuildKeyMappings, lines 962-966 and 969-973: the ids in
\* the order the map iteration yields them
RECURSIVE MapAll(_, _, _)
MapAll(keyMap, store, order) ==
    IF order = <<>> THEN keyMap
    ELSE MapAll(MapKeys(keyMap, store[order[1]].IndexKeys, order[1]),
                store, Tail(order))

\* rebuildKeyMappings, lines 956-974.  entityOrder and relationOrder: the
\* order in which the two map iterations yield the ids of the stores.
rebuildKeyMappings(idx, entityOrder, relationOrder) ==
    [idx EXCEPT
        !.keyToEntities = MapAll(EmptyMap, idx.entityKVStore, entityOrder),
        !.keyToRelations =
            MapAll(EmptyMap, idx.relationKVStore, relationOrder)]

\* the elements of order whose store entry has signature sig
GroupOf(order, signatures, sig) ==
    SelectSeq(order, LAMBDA id : signatures[id] = sig)

\* fmt.Sprintf("%s_%s_%s", ...), line 929
RelationSignature(relationKV) ==
    relationKV.SourceEntity \o "_" \o relationKV.TargetEntity \o "_"
        \o relationKV.RelationType

\* lines 911-917: the contents of the duplicates, appended to the primary
RECURSIVE MergedContent(_, _, _)
MergedContent(content, store, duplicates) ==
    IF duplicates = <<>> THEN content
    ELSE MergedContent(
            content \o "\n\nbuchong xinxi: "
                \o store[duplicates[1]].ValueContent,
            store, Tail(duplicates))

\* lines 897-947: the stores after the removal of the duplicates.  The
\* first id of a name (of a signature) in iteration order is kept.
DeduplicatedStores(idx, entityOrder, relationOrder) ==
    LET es == idx.entityKVStore
        rs == idx.relationKVStore
        names == [id \in DOMAIN es |-> es[id].EntityName]
        sigs == [id \in DOMAIN rs |-> RelationSignature(rs[id])]
        egroup(id) == GroupOf(entityOrder, names, names[id])
        rgroup(id) == GroupOf(relationOrder, sigs, sigs[id])
        ekeep == {id \in DOMAIN es : egroup(id)[1] = id}
        rkeep == {id \in DOMAIN rs : rgroup(id)[1] = id}
    IN  [idx EXCEPT
            !.entityKVStore =
                [id \in ekeep |->
                    [es[id] EXCEPT !.ValueContent =
                        MergedContent(@, es, Tail(egroup(id)))]],
            !.relationKVStore = [id \in rkeep |-> rs[id]]]

\* GetEntitiesByKey, lines 977-988
GetEntitiesByKey(idx, key) ==
    LET entityIDs == Lookup(idx.keyToEntities, key, <<>>)
        present == SelectSeq(entityIDs,
                       LAMBDA id : id \in DOMAIN idx.entityKVStore)
    IN  [i \in 1..Len(present) |-> idx.entityKVStore[present[i]]]

\* GetRelationsByKey, lines 991-1002
GetRelationsByKey(idx, key) ==
    LET relationIDs == Lookup(idx.keyToRelations, key, <<>>)
        present == SelectSeq(relationIDs,
                       LAMBDA id : id \in DOMAIN idx.relationKVStore)
    IN  [i \in 1..Len(present) |-> idx.relationKVStore[present[i]]]

\* the sum of f over the finite set S
RECURSIVE SumOf(_, _)
SumOf(f, S) ==
    IF S = {} THEN 0
    ELSE LET x == CHOOSE y \in S : TRUE IN f[x] + SumOf(f, S \ {x})

\* GetStatistics, lines 1005-1036
GetStatistics(idx) ==
    LET es == idx.entityKVStore
        rs == idx.relationKVStore
    IN  [ total_entities      |-> Cardinality(DOMAIN es),
          total_relations     |-> Cardinality(DOMAIN rs),
          total_entity_keys   |->
              SumOf([id \in DOMAIN es |-> Len(es[id].IndexKeys)], DOMAIN es),
          total_relation_keys |->
              SumOf([id \in DOMAIN rs |-> Len(rs[id].IndexKeys)], DOMAIN rs),
          entity_types        |->
              [t \in {"Recipe", "Ingredient", "CookingStep"} |->
                  Cardinality({id \in DOMAIN es : es[id].EntityType = t})] ]

(* A value of type interface{} : its dynamic type and the value *)
Dynamic(gotype, value) == [gotype |-> gotype, value |-> value]

\* ExportToJSON, lines 1131-1137: the stores themselves, under their own
\* map types
ExportToJSON(idx) ==
    [ entities   |-> Dynamic("map[string]*EntityKeyValue", idx.entityKVStore),
      relations  |-> Dynamic("map[string]*RelationKeyValue",
                             idx.relationKVStore),
      statistics |-> Dynamic("map[string]interface {}", GetStatistics(idx)) ]

\* encoding/json on an EntityKeyValue: the object with the names of the
\* json tags, lines 495-501, and the struct decoded from such an object
EntityToJSON(entityKV) ==
    [ entity_name   |-> entityKV.EntityName,
      index_keys    |-> entityKV.IndexKeys,
      value_content |-> entityKV.ValueContent,
      entity_type   |-> entityKV.EntityType,
      metadata      |-> entityKV.Metadata ]

EntityFromJSON(object) ==
    [ EntityName   |-> object.entity_name,
      IndexKeys    |-> object.index_keys,
      ValueContent |-> object.value_content,
      EntityType   |-> object.entity_type,
      Metadata     |-> object.metadata ]

\* the same for a RelationKeyValue, lines 513-521
RelationToJSON(relationKV) ==
    [ relation_id   |-> relationKV.RelationID,
      index_keys    |-> relationKV.IndexKeys,
      value_content |-> relationKV.ValueContent,
      relation_type |-> relationKV.RelationType,
      source_entity |-> relationKV.SourceEntity,
      target_entity |-> relationKV.TargetEntity,
      metadata      |-> relationKV.Metadata ]

RelationFromJSON(object) ==
    [ RelationID   |-> object.relation_id,
      IndexKeys    |-> object.index_keys,
      ValueContent |-> object.value_content,
      RelationType |-> object.relation_type,
      SourceEntity |-> object.source_entity,
      TargetEntity |-> object.target_entity,
      Metadata     |-> object.metadata ]

\* an export written with json.Marshal and read back with json.Unmarshal
\* into a map[string]interface{}: every object is a map[string]interface{}
SerializedExport(data) ==
    [ entities   |-> Dynamic("map[string]interface {}",
                        [id \in DOMAIN data.entities.value |->
                            EntityToJSON(data.entities.value[id])]),
      relations  |-> Dynamic("map[string]interface {}",
                        [id \in DOMAIN data.relations.value |->
                            RelationToJSON(data.relations.value[id])]),
      statistics |-> data.statistics ]

\* lines 1142-1169: the stores ImportFromJSON fills.  The type assertion
\* .(map[string]interface{}) holds for that dynamic type only.
ImportedStores(idx, data) ==
    [idx EXCEPT
        !.entityKVStore =
            IF data.entities.gotype = "map[string]interface {}"
            THEN [id \in DOMAIN data.entities.value |->
                     EntityFromJSON(data.entities.value[id])]
            ELSE EmptyMap,
        !.relationKVStore =
            IF data.relations.gotype = "map[string]interface {}"
            THEN [id \in DOMAIN data.relations.value |->
                     RelationFromJSON(data.relations.value[id])]
            ELSE EmptyMap]

----------------------------------------------------------------------------
(* IntelligentQueryRouter: statistics *)

\* NewIntelligentQueryRouter, lines 95-100: the counters are 0, the ratios
\* have the zero value
NewRouteStatistics ==
    [ TraditionalCount |-> 0, GraphRAGCount |-> 0, CombinedCount |-> 0,
      TotalQueries     |-> 0,
      TraditionalRatio |-> ZeroRatio, GraphRAGRatio |-> ZeroRatio,
      CombinedRatio    |-> ZeroRatio ]

\* the switch of updateRouteStats, lines 353-360: the counter a strategy
\* increments, "" for a strategy that is none of the three
CounterOfNoCombined(strategy) ==
    IF strategy = HybridTraditional THEN "TraditionalCount"
    ELSE IF strategy = GraphRAG THEN "GraphRAGCount"
    ELSE ""

CounterOf(strategy) ==
    IF strategy = HybridTraditional THEN "TraditionalCount"
    ELSE IF strategy = GraphRAG THEN "GraphRAGCount"
    ELSE IF strategy = Combined THEN "CombinedCount"
    ELSE ""

\* lines 365-367: the ratios in the order the code assigns them, each with
\* the counter it is computed from
RatioFields == <<"TraditionalRatio", "GraphRAGRatio", "CombinedRatio">>

RatioCounters == <<"TraditionalCount", "GraphRAGCount", "CombinedCount">>

\* GetRouteStatistics, lines 373-381: the fields in the order the struct
\* literal reads them
SnapshotFields ==
    <<"TraditionalCount", "GraphRAGCount", "CombinedCount", "TotalQueries",
      "TraditionalRatio", "GraphRAGRatio", "CombinedRatio">>

\* postProcessResults, lines 334-347
postProcessResultsReplacing(documents, analysis) ==
    [i \in 1..Len(documents) |->
        [documents[i] EXCEPT !.MetaData =
            [ route_strategy   |-> analysis.RecommendedStrategy,
              query_complexity |-> analysis.QueryComplexity,
              route_confidence |-> analysis.Confidence ]]]

postProcessResults(documents, analysis) ==
    [i \in 1..Len(documents) |->
        [documents[i] EXCEPT !.MetaData =
            Put(Put(Put(@,
                "route_strategy", analysis.RecommendedStrategy),
                "query_complexity", analysis.QueryComplexity),
                "route_confidence", analysis.Confidence)]]

\* the switch of RouteQuery, lines 225-244
DispatchStrategySwapped(strategy, env, query, topK) ==
    IF strategy = HybridTraditional
    THEN executeCombinedSearch(env, query, topK)
    ELSE IF strategy = GraphRAG THEN GraphRAGSearch(env, query, topK)
    ELSE IF strategy = Combined THEN HybridSearch(env, topK)
    ELSE HybridSearch(env, topK)

DispatchStrategy(strategy, env, query, topK) ==
    IF strategy = HybridTraditional THEN HybridSearch(env, topK)
    ELSE IF strategy = GraphRAG THEN GraphRAGSearch(env, query, topK)
    ELSE IF strategy = Combined THEN executeCombinedSearch(env, query, topK)
    ELSE HybridSearch(env, topK)

(* What the retrievals of one RouteQuery call find *)

\* with a driver, and an LLM that answers with a multi-hop plan of depth 3
Env(unique, matches, graph, graphErr) ==
    [unique |-> unique, matches |-> matches, graph |-> graph,
     graphErr |-> graphErr, driver |-> TRUE,
     llm |-> LLMParsed(MultiHop, <<"ji", "rou">>, 3)]

\* the same finds with another outcome of the LLM call
WithLLM(env, llm) == [env EXCEPT !.llm = llm]

\* the same finds when the connection to the graph store is absent
WithoutDriver(env) == [env EXCEPT !.driver = FALSE]

ER(n) == EntityResult(entityCache[n])

Path0 == PathDocument(0, Str(40, 233, "n1 --REQUIRES--> n2"), 130)

Path1 == PathDocument(1, Str(44, 233, "n2 --REQUIRES--> n3"), 80)

\* no connection to the graph store; an LLM call that fails, with and
\* without finds of the default subgraph plan; an LLM output that is no
\* JSON; an empty LLM output; the plan {} with max_depth 0; a clustering plan
GraphEnvs ==
    { WithoutDriver(Env(<<ER("n1")>>, <<entityCache["n1"]>>, <<>>, FALSE)),
      WithLLM(Env(<<ER("n1")>>, <<>>, <<Path0, Path1>>, FALSE), LLMError),
      WithLLM(Env(<<ER("n1")>>, <<>>, <<>>, FALSE), LLMError),
      WithLLM(Env(<<>>, <<>>, <<Path0>>, FALSE), LLMUnparseable),
      WithLLM(Env(<<>>, <<>>, <<Path1>>, FALSE), LLMEmpty),
      WithLLM(Env(<<>>, <<>>, <<Path0>>, FALSE), LLMParsed("", <<>>, 0)),
      WithLLM(Env(<<ER("n2")>>, <<>>, <<Path0>>, FALSE),
              LLMParsed(Clustering, <<"ji", "rou">>, 1)) }

\* nothing found; two lists that share n2; a failing graph retrieval; a
\* failing graph retrieval with a vector search that panics
RouterEnvs ==
    { Env(<<>>, <<>>, <<>>, FALSE),
      Env(<<ER("n1"), ER("n2")>>, <<entityCache["n2"], entityCache["n3"]>>,
          <<Path0, Path1>>, FALSE),
      Env(<<ER("n1")>>, <<entityCache["n1"]>>, <<>>, TRUE),
      Env(<<ER("n1")>>, <<entityCache["n5"]>>, <<Path0>>, TRUE) }
    \cup GraphEnvs

\* for the concurrent callers: nothing found, or a failing graph retrieval
\* with a vector search that panics
ConcEnvs ==
    { Env(<<>>, <<>>, <<>>, FALSE),
      Env(<<ER("n1")>>, <<entityCache["n5"]>>, <<Path0>>, TRUE) }

NoEnv == Env(<<>>, <<>>, <<>>, FALSE)

NoAnalysis == ruleBasedAnalysis(<<>>)

\* the locals of a goroutine that is in no call
NoCall ==
    [ op        |-> "none",
      query     |-> <<>>,
      topK      |-> 0,
      analysis  |-> NoAnalysis,
      tmp       |-> 0,            \* the value loaded for an increment
      total     |-> 0,            \* total of updateRouteStats, line 363
      idx       |-> 0,            \* the field a multi-field access is at
      env       |-> NoEnv,
      documents |-> <<>>,
      documentsNil |-> TRUE,      \* documents is the nil slice
      raw       |-> <<>>,         \* documents before the annotation
      dispatch  |-> "none",       \* status of the dispatched call
      fallbacks |-> 0,            \* fallback calls made
      fallback  |-> "none",       \* status of the fallback call
      snapshot  |-> NewRouteStatistics,
      before    |-> NewRouteStatistics, \* history: routeStats when the
                                        \* call of a single caller began
      returned  |-> FALSE ]       \* the call has returned

\* no pure function applied yet
NoRes == [op |-> "none"]

Crashed == \E p \in Procs : pc[p] = "panicked"

----------------------------------------------------------------------------
(* IntelligentQueryRouter.RouteQuery, statement by statement.  The code     *)
(* takes no lock: every load and store of a routeStats field is a step of   *)
(* its own, and the steps of concurrent calls interleave.                   *)

\* no other goroutine uses the router
SingleCaller(p) == \A q \in Procs \ {p} : pc[q] = "off"

\* lines 208-220: the analysis (local), then the call of updateRouteStats
RouteQuery(p) ==
    /\ pc[p] = "idle"
    /\ ncalls[p] < MaxCalls
    /\ \E query \in inputs.queries, topK \in inputs.topKs :
          loc' = [loc EXCEPT ![p] =
                    [NoCall EXCEPT !.op = "RouteQuery",
                                   !.query = query,
                                   !.topK = topK,
                                   !.before =
                                       IF SingleCaller(p) THEN routeStats
                                       ELSE NewRouteStatistics,
                                   !.analysis = AnalyzeQuery(query)]]
    /\ ncalls' = [ncalls EXCEPT ![p] = @ + 1]
    /\ routed' = [routed EXCEPT ![p] = @ + 1]
    /\ pc' = [pc EXCEPT ![p] = "urs_load_total"]
    /\ UNCHANGED <<routeStats, inputs, arg, res, index, resultChan, milvus>>

\* line 351, r.routeStats.TotalQueries++: the load
UrsLoadTotal(p) ==
    /\ pc[p] = "urs_load_total"
    /\ loc' = [loc EXCEPT ![p].tmp = routeStats.TotalQueries]
    /\ pc' = [pc EXCEPT ![p] = "urs_store_total"]
    /\ UNCHANGED <<routeStats, ncalls, routed, inputs, arg, res, index, resultChan, milvus>>

\* line 351: the store
UrsStoreTotal(p) ==
    /\ pc[p] = "urs_store_total"
    /\ routeStats' = [routeStats EXCEPT !.TotalQueries = loc[p].tmp + 1]
    /\ pc' = [pc EXCEPT ![p] =
                IF CounterOf(loc[p].analysis.RecommendedStrategy) = ""
                THEN "urs_read_total" ELSE "urs_load_count"]
    /\ UNCHANGED <<loc, ncalls, routed, inputs, arg, res, index, resultChan, milvus>>

\* lines 353-360, the counter of the strategy: the load
UrsLoadCount(p) ==
    /\ pc[p] = "urs_load_count"
    /\ loc' = [loc EXCEPT ![p].tmp =
                 routeStats[CounterOf(loc[p].analysis.RecommendedStrategy)]]
    /\ pc' = [pc EXCEPT ![p] = "urs_store_count"]
    /\ UNCHANGED <<routeStats, ncalls, routed, inputs, arg, res, index, resultChan, milvus>>

\* lines 353-360: the store
UrsStoreCount(p) ==
    /\ pc[p] = "urs_store_count"
    /\ routeStats' =
          [routeStats EXCEPT
              ![CounterOf(loc[p].analysis.RecommendedStrategy)] =
                  loc[p].tmp + 1]
    /\ pc' = [pc EXCEPT ![p] = "urs_read_total"]
    /\ UNCHANGED <<loc, ncalls, routed, inputs, arg, res, index, resultChan, milvus>>

\* lines 363-364: total := float64(TotalQueries); if total > 0
UrsReadTotal(p) ==
    /\ pc[p] = "urs_read_total"
    /\ loc' = [loc EXCEPT ![p].total = routeStats.TotalQueries,
                          ![p].idx = 1]
    /\ pc' = [pc EXCEPT ![p] =
                IF routeStats.TotalQueries > 0 THEN "urs_ratio"
                ELSE "dispatch"]
    /\ UNCHANGED <<routeStats, ncalls, routed, inputs, arg, res, index, resultChan, milvus>>

\* lines 365-367: one ratio, from the counter as it is now and total
UrsRatio(p) ==
    /\ pc[p] = "urs_ratio"
    /\ routeStats' =
          [routeStats EXCEPT ![RatioFields[loc[p].idx]] =
              Ratio(routeStats[RatioCounters[loc[p].idx]], loc[p].total)]
    /\ loc' = [loc EXCEPT ![p].idx = @ + 1]
    /\ pc' = [pc EXCEPT ![p] =
                IF loc[p].idx = Len(RatioFields) THEN "dispatch"
                ELSE "urs_ratio"]
    /\ UNCHANGED <<ncalls, routed, inputs, arg, res, index, resultChan, milvus>>

\* lines 222-250: the retrieval of the recommended strategy
Dispatch(p) ==
    /\ pc[p] = "dispatch"
    /\ \E env \in inputs.envs :
          LET out == DispatchStrategy(loc[p].analysis.RecommendedStrategy,
                                      env, loc[p].query, loc[p].topK)
          IN  /\ loc' = [loc EXCEPT ![p].env = env,
                                    ![p].dispatch = out.status,
                                    ![p].documents = out.docs,
                                    ![p].documentsNil = out.isNil]
              /\ pc' = [pc EXCEPT ![p] =
                          IF out.status = "panic" THEN "panicked"
                          ELSE IF out.status = "err" THEN "fallback"
                          ELSE "postprocess"]
    /\ UNCHANGED <<routeStats, ncalls, routed, inputs, arg, res, index, resultChan, milvus>>

\* lines 246-250: documents, _ = HybridSearch(...): the error is dropped
FallbackRecounting(p) ==
    /\ pc[p] = "fallback"
    /\ LET out == HybridSearch(loc[p].env, loc[p].topK)
           decided == CounterOf(loc[p].analysis.RecommendedStrategy)
       IN  /\ loc' = [loc EXCEPT ![p].fallbacks = @ + 1,
                                 ![p].fallback = out.status,
                                 ![p].documents = out.docs,
                                 ![p].documentsNil = out.isNil]
           /\ routeStats' =
                 [routeStats EXCEPT
                     ![decided] = @ - 1,
                     !.TraditionalCount =
                         IF decided = "TraditionalCount" THEN @ ELSE @ + 1]
           /\ pc' = [pc EXCEPT ![p] =
                       IF out.status = "panic" THEN "panicked"
                       ELSE "postprocess"]
    /\ UNCHANGED <<ncalls, routed, inputs, arg, res, index, resultChan, milvus>>

Fallback(p) ==
    /\ pc[p] = "fallback"
    /\ LET out == HybridSearch(loc[p].env, loc[p].topK)
       IN  /\ loc' = [loc EXCEPT ![p].fallbacks = @ + 1,
                                 ![p].fallback = out.status,
                                 ![p].documents = out.docs,
                                 ![p].documentsNil = out.isNil]
           /\ pc' = [pc EXCEPT ![p] =
                       IF out.status = "panic" THEN "panicked"
                       ELSE "postprocess"]
    /\ UNCHANGED <<routeStats, ncalls, routed, inputs, arg, res, index, resultChan, milvus>>

\* lines 252-256: the annotation, then return documents, analysis, nil
PostProcess(p) ==
    /\ pc[p] = "postprocess"
    /\ loc' = [loc EXCEPT
                 ![p].raw = loc[p].documents,
                 ![p].documents =
                     postProcessResults(loc[p].documents, loc[p].analysis),
                 ![p].returned = TRUE]
    /\ pc' = [pc EXCEPT ![p] = "idle"]
    /\ UNCHANGED <<routeStats, ncalls, routed, inputs, arg, res, index, resultChan, milvus>>

\* the error RouteQuery returns, line 256: nil in every case
ReturnedErr(p) == "nil"

(* IntelligentQueryRouter.GetRouteStatistics: the fields are read one by    *)
(* one, without a lock                                                      *)
GetRouteStatistics(p) ==
    /\ pc[p] = "idle"
    /\ ncalls[p] < MaxCalls
    /\ loc' = [loc EXCEPT ![p] =
                 [NoCall EXCEPT !.op = "GetRouteStatistics", !.idx = 1]]
    /\ ncalls' = [ncalls EXCEPT ![p] = @ + 1]
    /\ pc' = [pc EXCEPT ![p] = "grs_read"]
    /\ UNCHANGED <<routeStats, routed, inputs, arg, res, index, resultChan, milvus>>

GrsRead(p) ==
    /\ pc[p] = "grs_read"
    /\ LET f == SnapshotFields[loc[p].idx]
           done == loc[p].idx = Len(SnapshotFields)
       IN  /\ loc' = [loc EXCEPT ![p].snapshot[f] = routeStats[f],
                                 ![p].idx = @ + 1,
                                 ![p].returned = done]
           /\ pc' = [pc EXCEPT ![p] = IF done THEN "idle" ELSE "grs_read"]
    /\ UNCHANGED <<routeStats, ncalls, routed, inputs, arg, res, index, resultChan, milvus>>

RouterStep(p) ==
    \/ RouteQuery(p)
    \/ UrsLoadTotal(p)
    \/ UrsStoreTotal(p)
    \/ UrsLoadCount(p)
    \/ UrsStoreCount(p)
    \/ UrsReadTotal(p)
    \/ UrsRatio(p)
    \/ Dispatch(p)
    \/ Fallback(p)
    \/ PostProcess(p)
    \/ GetRouteStatistics(p)
    \/ GrsRead(p)

\* an unrecovered panic ends the program
Next == ~Crashed /\ \E p \in Procs : RouterStep(p)

\* the router right after NewIntelligentQueryRouter, with a single caller:
\* the calls follow one another
Init ==
    /\ routeStats = NewRouteStatistics
    /\ pc = [p \in Procs |-> IF p = 1 THEN "idle" ELSE "off"]
    /\ loc = [p \in Procs |-> NoCall]
    /\ ncalls = [p \in Procs |-> 0]
    /\ routed = [p \in Procs |-> 0]
    /\ inputs = [queries |-> RouterQueries, topKs |-> 1..MaxTopK,
                 envs |-> RouterEnvs]
    /\ arg = "none"
    /\ res = NoRes
    /\ index = NewGraphIndexingModule
    /\ resultChan = NoChan
    /\ milvus = NewMilvusIndexConstructionModule

Spec == Init /\ [][Next]_vars

\* the same, where a call that can take a step eventually takes one
SpecFair == Init /\ [][Next]_vars /\ WF_vars(Next)

\* the same router shared by NumProcs goroutines that call it concurrently,
\* with one query for each strategy
InitConc ==
    /\ routeStats = NewRouteStatistics
    /\ pc = [p \in Procs |-> "idle"]
    /\ loc = [p \in Procs |-> NoCall]
    /\ ncalls = [p \in Procs |-> 0]
    /\ routed = [p \in Procs |-> 0]
    /\ inputs = [queries |-> {PlainQuery, ThreeCueQuery, FiveCueQuery},
                 topKs |-> {MaxTopK}, envs |-> ConcEnvs]
    /\ arg = "none"
    /\ res = NoRes
    /\ index = NewGraphIndexingModule
    /\ resultChan = NoChan
    /\ milvus = NewMilvusIndexConstructionModule

SpecConc == InitConc /\ [][Next]_vars

----------------------------------------------------------------------------
(* The analysis applied to the queries of at most MaxQueryWords words *)

InitAnalysis ==
    /\ routeStats = NewRouteStatistics
    /\ pc = [p \in Procs |-> "off"]
    /\ loc = [p \in Procs |-> NoCall]
    /\ ncalls = [p \in Procs |-> 0]
    /\ routed = [p \in Procs |-> 0]
    /\ inputs = [queries |-> {}, topKs |-> {}, envs |-> {}]
    /\ arg \in AnalysisQueries(MaxQueryWords) \cup RouterQueries
    /\ res = NoRes
    /\ index = NewGraphIndexingModule
    /\ resultChan = NoChan
    /\ milvus = NewMilvusIndexConstructionModule

Analyze ==
    /\ res.op = "none"
    /\ res' = [op |-> "ruleBasedAnalysis", out |-> ruleBasedAnalysis(arg)]
    /\ UNCHANGED <<routeStats, pc, loc, ncalls, routed, inputs, arg, index, resultChan, milvus>>

NextAnalysis == Analyze

SpecAnalysis == InitAnalysis /\ [][NextAnalysis]_vars

----------------------------------------------------------------------------
(* The merges applied to the result lists of at most MaxDocs documents *)

\* the sequences without repetition of at most k elements of S
RECURSIVE InjSeqs(_, _)
InjSeqs(S, k) ==
    IF k = 0 THEN {<<>>}
    ELSE {<<>>} \cup
         UNION {{<<x>> \o s : s \in InjSeqs(S \ {x}, k - 1)} : x \in S}

\* the entities the merged lists are drawn from
MergeNodes == {"n1", "n2", "n3", "n4"}

\* the paths of the graph retrieval, by descending score
Paths ==
    << Path0, Path1,
       PathDocument(2, Str(20, 229, "n1"), 70) >>

\* the ranked lists of at most k path documents
GraphLists(k) ==
    {[j \in 1..Len(s) |-> Paths[s[j]]] : s \in Picks(k, 1, Len(Paths))}

MergeEnvs(k) ==
    {Env([j \in 1..Len(u) |-> ER(u[j])],
         [j \in 1..Len(m) |-> entityCache[m[j]]], g, FALSE) :
        u \in InjSeqs(MergeNodes, k), m \in InjSeqs(MergeNodes, k),
        g \in GraphLists(k)}
    \cup
    {Env([j \in 1..Len(u) |-> ER(u[j])],
         [j \in 1..Len(m) |-> entityCache[m[j]]], <<>>, TRUE) :
        u \in InjSeqs(MergeNodes, k), m \in InjSeqs(MergeNodes, k)}

InitMerge ==
    /\ routeStats = NewRouteStatistics
    /\ pc = [p \in Procs |-> "off"]
    /\ loc = [p \in Procs |-> NoCall]
    /\ ncalls = [p \in Procs |-> 0]
    /\ routed = [p \in Procs |-> 0]
    /\ inputs = [queries |-> {}, topKs |-> {}, envs |-> {}]
    /\ arg \in [env : MergeEnvs(MaxDocs), topK : 1..MaxTopK]
    /\ res = NoRes
    /\ index = NewGraphIndexingModule
    /\ resultChan = NoChan
    /\ milvus = NewMilvusIndexConstructionModule

\* the query of the merged searches
MergeQuery == ScenarioAQuery

\* the documents in the order the loop of lines 295-323 looks at them: the
\* graph document and then the traditional document of every position
Offered(graphDocs, traditionalDocs) ==
    LET maxLen == Max(Len(traditionalDocs), Len(graphDocs))
    IN  Concat([i \in 1..maxLen |->
                  (IF i <= Len(graphDocs) THEN <<graphDocs[i]>> ELSE <<>>)
                  \o (IF i <= Len(traditionalDocs)
                      THEN <<traditionalDocs[i]>> ELSE <<>>)])

\* HybridSearch on the drawn lists, with the two lists it merges
ApplyHybridSearch ==
    /\ res.op = "none"
    /\ res' = [ op   |-> "HybridSearch",
                out  |-> HybridSearch(arg.env, arg.topK),
                dual |-> DualLevelDocuments(arg.env.unique, arg.topK),
                vector |-> VectorSearchEnhanced(arg.env.matches, arg.topK) ]
    /\ UNCHANGED <<routeStats, pc, loc, ncalls, routed, inputs, arg, index, resultChan, milvus>>

\* executeCombinedSearch on the drawn lists, with the two lists it merges
ApplyCombinedSearch ==
    /\ res.op = "none"
    /\ res' = [ op    |-> "executeCombinedSearch",
                out   |-> executeCombinedSearch(arg.env, MergeQuery,
                                                 arg.topK),
                offered |-> Offered(
                    GraphRAGSearch(arg.env, MergeQuery,
                                   GraphK(arg.topK)).docs,
                    HybridSearch(arg.env, TraditionalK(arg.topK)).docs),
                traditionalK |-> TraditionalK(arg.topK),
                graphK |-> GraphK(arg.topK),
                graph |-> GraphRAGSearch(arg.env, MergeQuery,
                                         GraphK(arg.topK)).docs,
                traditional |->
                    HybridSearch(arg.env, TraditionalK(arg.topK)).docs ]
    /\ UNCHANGED <<routeStats, pc, loc, ncalls, routed, inputs, arg, index, resultChan, milvus>>

NextMerge == ApplyHybridSearch \/ ApplyCombinedSearch

SpecMerge == InitMerge /\ [][NextMerge]_vars

----------------------------------------------------------------------------
(* The query understanding applied to the outcomes of the LLM call, and the *)
(* traversal GraphRAGSearch then starts with the plan                       *)

\* the deepest traversal the prompt asks the LLM for, line 311
DepthCeiling == 3

LLMOutcomes ==
    {LLMError, LLMUnparseable, LLMEmpty}
    \cup {LLMParsed(t, src, d) :
            t \in QueryTypes \cup {""},
            src \in {<<>>, <<"ji", "rou">>},
            d \in (0 - MaxLLMDepth)..MaxLLMDepth}

InitGraph ==
    /\ routeStats = NewRouteStatistics
    /\ pc = [p \in Procs |-> "off"]
    /\ loc = [p \in Procs |-> NoCall]
    /\ ncalls = [p \in Procs |-> 0]
    /\ routed = [p \in Procs |-> 0]
    /\ inputs = [queries |-> {}, topKs |-> {}, envs |-> {}]
    /\ arg \in [query : RouterQueries, formatErr : BOOLEAN,
                llm : LLMOutcomes]
    /\ res = NoRes
    /\ index = NewGraphIndexingModule
    /\ resultChan = NoChan
    /\ milvus = NewMilvusIndexConstructionModule

\* GraphRAGSearch, line 645
ApplyUnderstandGraphQuery ==
    /\ res.op = "none"
    /\ res' = [ op  |-> "UnderstandGraphQuery",
                out |-> UnderstandGraphQuery(arg.formatErr, arg.llm,
                                             arg.query) ]
    /\ UNCHANGED <<routeStats, pc, loc, ncalls, routed, inputs, arg, index, resultChan, milvus>>

\* GraphRAGSearch, lines 655-657: a multi-hop plan reaches the path query
\* of MultiHopTraversal
MultiHopTraversal ==
    /\ res.op = "UnderstandGraphQuery"
    /\ res.out.status = "ok"
    /\ res.out.plan.QueryType = MultiHop
    /\ res' = [ op      |-> "MultiHopTraversal",
                plan    |-> res.out.plan,
                pattern |-> PathPattern(res.out.plan) ]
    /\ UNCHANGED <<routeStats, pc, loc, ncalls, routed, inputs, arg, index, resultChan, milvus>>

\* GraphRAGSearch, lines 663-665: a subgraph plan reaches the subgraph query
ExtractKnowledgeSubgraph ==
    /\ res.op = "UnderstandGraphQuery"
    /\ res.out.status = "ok"
    /\ res.out.plan.QueryType = Subgraph
    /\ res' = [ op      |-> "ExtractKnowledgeSubgraph",
                plan    |-> res.out.plan,
                pattern |-> SubgraphPattern(res.out.plan) ]
    /\ UNCHANGED <<routeStats, pc, loc, ncalls, routed, inputs, arg, index, resultChan, milvus>>

NextGraph ==
    \/ ApplyUnderstandGraphQuery
    \/ MultiHopTraversal
    \/ ExtractKnowledgeSubgraph

SpecGraph == InitGraph /\ [][NextGraph]_vars

----------------------------------------------------------------------------
(* The GraphIndexingModule under a sequence of at most MaxIndexOps calls *)

\* the orders in which a map iteration can yield the keys S
Perms(S) == {s \in InjSeqs(S, Cardinality(S)) : Len(s) = Cardinality(S)}

\* a recipe, the same node under another name, a second node of the same
\* name, and a node without name
RecipeInputs ==
    { Recipe("n1", "A", [category |-> "chuancai"]),
      Recipe("n1", "B", EmptyMap),
      Recipe("n2", "A", EmptyMap),
      Recipe("n2", "", EmptyMap) }

IngredientInputs ==
    { Ingredient("n3", "B", EmptyMap),
      Ingredient("n3", "A", [category |-> "roulei"]) }

StepInputs == { CookingStep("n3", "", [order |-> "1"]) }

\* the node ids of a list of entities
NodeIDsOf(entities) == {entities[i].NodeID : i \in 1..Len(entities)}

\* the arguments of one CreateEntityKeyValues call: at most k entities,
\* each node once
EntityInputs(k) ==
    { in \in [ recipes     : InjSeqs(RecipeInputs, k),
               ingredients : InjSeqs(IngredientInputs, 1),
               steps       : InjSeqs(StepInputs, 1) ] :
        LET n == Len(in.recipes) + Len(in.ingredients) + Len(in.steps)
        IN  /\ n <= k
            /\ Cardinality(NodeIDsOf(in.recipes) \cup NodeIDsOf(in.ingredients)
                           \cup NodeIDsOf(in.steps)) = n }

RelationshipInputs ==
    { Relationship("n1", "REQUIRES", "n2"),
      Relationship("n1", "SIMILAR_TO", "n2"),
      Relationship("n1", "HAS_STEP", "n3") }

\* the arguments of one CreateRelationKeyValues call: at most k
\* relationships, and the keys the LLM adds to each
RelationInputs(k) ==
    [ relationships : InjSeqs(RelationshipInputs, k),
      enhancedKeys  : {<<>>, <<"jiachang cai", "REQUIRES">>} ]

\* the inputs of the calls of a run
EntityCalls == EntityInputs(MaxEntities)

RelationCalls == RelationInputs(MaxRelations)

\* the calls that end with rebuildKeyMappings
RebuildOps == {"DeduplicateEntitiesAndRelations", "ImportFromJSON"}

InitIndex ==
    /\ routeStats = NewRouteStatistics
    /\ pc = [p \in Procs |-> "off"]
    /\ loc = [p \in Procs |-> NoCall]
    /\ ncalls = [p \in Procs |-> 0]
    /\ routed = [p \in Procs |-> 0]
    /\ inputs = [queries |-> {}, topKs |-> {}, envs |-> {}]
    /\ arg = "none"
    /\ res = NoRes
    /\ index = NewGraphIndexingModule
    /\ resultChan = NoChan
    /\ milvus = NewMilvusIndexConstructionModule

\* one more call on the module; res keeps the call, its input, the index
\* before it, and whether the call before was the same call
CallOnIndex(op, input, again) ==
    /\ ncalls[1] < MaxIndexOps
    /\ ncalls' = [ncalls EXCEPT ![1] = @ + 1]
    /\ res' = [op |-> op, input |-> input, again |-> again,
               before |-> index]
    /\ UNCHANGED <<routeStats, pc, loc, routed, inputs, arg, resultChan, milvus>>

ApplyCreateEntityKeyValues ==
    \E in \in EntityCalls :
        /\ index' = CreateEntityKeyValues(index, in.recipes, in.ingredients,
                                          in.steps)
        /\ CallOnIndex("CreateEntityKeyValues", in,
               res.op = "CreateEntityKeyValues" /\ res.input = in)

ApplyCreateRelationKeyValues ==
    \E in \in RelationCalls :
        /\ index' = CreateRelationKeyValues(index, in.relationships,
                                            in.enhancedKeys)
        /\ CallOnIndex("CreateRelationKeyValues", in,
               res.op = "CreateRelationKeyValues" /\ res.input = in)

\* DeduplicateEntitiesAndRelations, lines 894-953
ApplyDeduplicate ==
    \E eo \in Perms(DOMAIN index.entityKVStore),
       ro \in Perms(DOMAIN index.relationKVStore) :
        LET stores == DeduplicatedStores(index, eo, ro)
        IN  \E eo2 \in Perms(DOMAIN stores.entityKVStore),
               ro2 \in Perms(DOMAIN stores.relationKVStore) :
                /\ index' = rebuildKeyMappings(stores, eo2, ro2)
                /\ CallOnIndex("DeduplicateEntitiesAndRelations", Nil,
                       res.op \in RebuildOps)

\* ImportFromJSON, lines 1140-1175, on the data in hand
ImportFromJSON(data, via) ==
    LET stores == ImportedStores(index, data)
    IN  \E eo \in Perms(DOMAIN stores.entityKVStore),
           ro \in Perms(DOMAIN stores.relationKVStore) :
            /\ index' = rebuildKeyMappings(stores, eo, ro)
            /\ CallOnIndex("ImportFromJSON", via, res.op \in RebuildOps)

\* g.ImportFromJSON(data) with data, _ := g.ExportToJSON()
ApplyImportExported == ImportFromJSON(ExportToJSON(index), "exported")

\* the same with the export written to JSON and read back in between
ApplyImportSerialized ==
    ImportFromJSON(SerializedExport(ExportToJSON(index)), "serialized")

NextIndex ==
    \/ ApplyCreateEntityKeyValues
    \/ ApplyCreateRelationKeyValues
    \/ ApplyDeduplicate
    \/ ApplyImportExported
    \/ ApplyImportSerialized

SpecIndex == InitIndex /\ [][NextIndex]_vars

----------------------------------------------------------------------------
(* One goroutine rebuilds the key maps while another reads the index.  The  *)
(* module has no lock: every statement of rebuildKeyMappings that writes a  *)
(* key map is a step of its own, and so are the read of the key map and     *)
(* the reads of the store in GetEntitiesByKey and GetRelationsByKey.        *)

Writer == 1

Reader == 2

\* the indexes the run starts from: built by CreateEntityKeyValues and
\* CreateRelationKeyValues on a new module
BuiltIndexes ==
    { CreateRelationKeyValues(
          CreateEntityKeyValues(NewGraphIndexingModule, in.recipes,
                                in.ingredients, in.steps),
          rels, <<>>) :
        in \in {c \in EntityCalls : c.recipes # <<>>},
        rels \in InjSeqs(RelationshipInputs, 1) }

\* the appends of the two loops of rebuildKeyMappings, in the order they
\* are executed for the iteration order given: <<map, key, id>>
RECURSIVE RebuildWork(_, _, _)
RebuildWork(keyMap, store, order) ==
    IF order = <<>> THEN <<>>
    ELSE [i \in 1..Len(store[order[1]].IndexKeys) |->
             <<keyMap, store[order[1]].IndexKeys[i], order[1]>>]
         \o RebuildWork(keyMap, store, Tail(order))

\* the locals of a goroutine that is in no call on the index
NoIndexCall ==
    [ op |-> "none", key |-> Nil, ids |-> <<>>, result |-> <<>>,
      work |-> <<>>, returned |-> FALSE ]

InitIndexConc ==
    /\ routeStats = NewRouteStatistics
    /\ pc = [p \in Procs |-> IF p \in {Writer, Reader} THEN "idle" ELSE "off"]
    /\ loc = [p \in Procs |-> NoIndexCall]
    /\ ncalls = [p \in Procs |-> 0]
    /\ routed = [p \in Procs |-> 0]
    /\ inputs = [queries |-> {}, topKs |-> {}, envs |-> {}]
    /\ index \in BuiltIndexes
    /\ resultChan = NoChan
    /\ milvus = NewMilvusIndexConstructionModule
    /\ arg = index
    /\ res = NoRes

\* the call of rebuildKeyMappings at the end of a call that has changed
\* the stores to those of stores
StartRebuild(op, stores) ==
    /\ pc[Writer] = "idle"
    /\ ncalls[Writer] = 0
    /\ \E eo \in Perms(DOMAIN stores.entityKVStore),
          ro \in Perms(DOMAIN stores.relationKVStore) :
          loc' = [loc EXCEPT ![Writer] =
                    [NoIndexCall EXCEPT
                        !.op = op,
                        !.work =
                            RebuildWork("keyToEntities",
                                        stores.entityKVStore, eo)
                            \o RebuildWork("keyToRelations",
                                           stores.relationKVStore, ro)]]
    /\ index' = stores
    /\ ncalls' = [ncalls EXCEPT ![Writer] = 1]
    /\ pc' = [pc EXCEPT ![Writer] = "rb_clear_entities"]
    /\ UNCHANGED <<routeStats, routed, inputs, arg, res, resultChan, milvus>>

\* DeduplicateEntitiesAndRelations, lines 894-950
WriterDeduplicate ==
    \E eo \in Perms(DOMAIN index.entityKVStore),
       ro \in Perms(DOMAIN index.relationKVStore) :
        StartRebuild("DeduplicateEntitiesAndRelations",
                     DeduplicatedStores(index, eo, ro))

\* ImportFromJSON, lines 1140-1172, of the serialized export of the index
WriterImport ==
    StartRebuild("ImportFromJSON",
        ImportedStores(index, SerializedExport(ExportToJSON(index))))

\* line 958
RbClearEntities ==
    /\ pc[Writer] = "rb_clear_entities"
    /\ index' = [index EXCEPT !.keyToEntities = EmptyMap]
    /\ pc' = [pc EXCEPT ![Writer] = "rb_clear_relations"]
    /\ UNCHANGED <<routeStats, loc, ncalls, routed, inputs, arg, res, resultChan, milvus>>

\* line 959
RbClearRelations ==
    /\ pc[Writer] = "rb_clear_relations"
    /\ index' = [index EXCEPT !.keyToRelations = EmptyMap]
    /\ pc' = [pc EXCEPT ![Writer] = "rb_append"]
    /\ UNCHANGED <<routeStats, loc, ncalls, routed, inputs, arg, res, resultChan, milvus>>

\* lines 964 and 971: one append; after the last one the call returns
RbAppend ==
    /\ pc[Writer] = "rb_append"
    /\ IF loc[Writer].work = <<>>
       THEN /\ loc' = [loc EXCEPT ![Writer].returned = TRUE]
            /\ pc' = [pc EXCEPT ![Writer] = "done"]
            /\ UNCHANGED index
       ELSE LET w == Head(loc[Writer].work)
            IN  /\ index' = [index EXCEPT ![w[1]] = AppendAt(@, w[2], w[3])]
                /\ loc' = [loc EXCEPT ![Writer].work = Tail(@)]
                /\ UNCHANGED pc
    /\ UNCHANGED <<routeStats, ncalls, routed, inputs, arg, res, resultChan, milvus>>

\* a call of GetEntitiesByKey or GetRelationsByKey with a key of the index
\* the run started from
StartGet(op, keys) ==
    /\ pc[Reader] = "idle"
    /\ ncalls[Reader] = 0
    /\ \E key \in keys :
          loc' = [loc EXCEPT ![Reader] =
                    [NoIndexCall EXCEPT !.op = op, !.key = key]]
    /\ ncalls' = [ncalls EXCEPT ![Reader] = 1]
    /\ pc' = [pc EXCEPT ![Reader] = "get_load"]
    /\ UNCHANGED <<routeStats, routed, inputs, arg, res, index, resultChan, milvus>>

ReaderGetEntitiesByKey ==
    StartGet("GetEntitiesByKey", DOMAIN arg.keyToEntities)

ReaderGetRelationsByKey ==
    StartGet("GetRelationsByKey", DOMAIN arg.keyToRelations)

\* lines 978 and 992: the read of the key map
GetLoad ==
    /\ pc[Reader] = "get_load"
    /\ loc' = [loc EXCEPT ![Reader].ids =
                 Lookup(IF loc[Reader].op = "GetEntitiesByKey"
                        THEN index.keyToEntities ELSE index.keyToRelations,
                        loc[Reader].key, <<>>)]
    /\ pc' = [pc EXCEPT ![Reader] = "get_collect"]
    /\ UNCHANGED <<routeStats, ncalls, routed, inputs, arg, res, index, resultChan, milvus>>

\* lines 981-987 and 995-1001: the reads of the store, and the return
GetCollect ==
    /\ pc[Reader] = "get_collect"
    /\ LET store == IF loc[Reader].op = "GetEntitiesByKey"
                    THEN index.entityKVStore ELSE index.relationKVStore
           present == SelectSeq(loc[Reader].ids,
                                LAMBDA id : id \in DOMAIN store)
       IN  loc' = [loc EXCEPT
                     ![Reader].result =
                         [i \in 1..Len(present) |-> store[present[i]]],
                     ![Reader].returned = TRUE]
    /\ pc' = [pc EXCEPT ![Reader] = "done"]
    /\ UNCHANGED <<routeStats, ncalls, routed, inputs, arg, res, index, resultChan, milvus>>

\* a map read that overlaps a map write of the other goroutine: the Go
\* runtime may stop the program with "concurrent map read and map write"
ReaderFatal ==
    /\ pc[Reader] = "get_load"
    /\ pc[Writer] = "rb_append"
    /\ loc[Writer].work # <<>>
    /\ pc' = [pc EXCEPT ![Reader] = "panicked"]
    /\ UNCHANGED <<routeStats, loc, ncalls, routed, inputs, arg, res, index, resultChan, milvus>>

NextIndexConc ==
    /\ ~Crashed
    /\ \/ WriterDeduplicate
       \/ WriterImport
       \/ RbClearEntities
       \/ RbClearRelations
       \/ RbAppend
       \/ ReaderGetEntitiesByKey
       \/ ReaderGetRelationsByKey
       \/ GetLoad
       \/ GetCollect
       \/ ReaderFatal

SpecIndexConc == InitIndexConc /\ [][NextIndexConc]_vars

----------------------------------------------------------------------------
(* DualLevelRetrieval on the entity cache: the entries either level         *)
(* matches (one entry per matching keyword, in map order) and the rows the  *)
(* store adds                                                               *)

DualNodes == {"n1", "n2", "n3"}

\* the lists of at most k nodes, repeats allowed
RECURSIVE NodeLists(_)
NodeLists(k) ==
    IF k = 0 THEN {<<>>}
    ELSE {<<>>} \cup {<<x>> \o l : x \in DualNodes, l \in NodeLists(k - 1)}

InitDual ==
    /\ routeStats = NewRouteStatistics
    /\ pc = [p \in Procs |-> "off"]
    /\ loc = [p \in Procs |-> NoCall]
    /\ ncalls = [p \in Procs |-> 0]
    /\ routed = [p \in Procs |-> 0]
    /\ inputs = [queries |-> {}, topKs |-> {}, envs |-> {}]
    /\ arg \in [ entityIndex : NodeLists(MaxDocs),
                 entityStore : NodeLists(1),
                 topicIndex  : NodeLists(MaxDocs),
                 topicStore  : NodeLists(1),
                 topK        : 1..MaxTopK ]
    /\ res = NoRes
    /\ index = NewGraphIndexingModule
    /\ resultChan = NoChan
    /\ milvus = NewMilvusIndexConstructionModule

ApplyDualLevelRetrieval ==
    /\ res.op = "none"
    /\ LET entityResults ==
               LevelRetrieval(
                   [i \in 1..Len(arg.entityIndex) |->
                       EntityResult(entityCache[arg.entityIndex[i]])],
                   [i \in 1..Len(arg.entityStore) |->
                       SupplementResult(entityCache[arg.entityStore[i]],
                                        "entity")],
                   arg.topK)
           topicResults ==
               LevelRetrieval(
                   [i \in 1..Len(arg.topicIndex) |->
                       TopicResult(entityCache[arg.topicIndex[i]])],
                   [i \in 1..Len(arg.topicStore) |->
                       SupplementResult(entityCache[arg.topicStore[i]],
                                        "topic")],
                   arg.topK)
       IN  res' = [ op    |-> "DualLevelRetrieval",
                    found |-> entityResults \o topicResults,
                    out   |-> DualLevelRetrieval(entityResults, topicResults,
                                                 arg.topK) ]
    /\ UNCHANGED <<routeStats, pc, loc, ncalls, routed, inputs, arg, index, resultChan, milvus>>

NextDual == ApplyDualLevelRetrieval

SpecDual == InitDual /\ [][NextDual]_vars

----------------------------------------------------------------------------
(* GraphRAGSearch applied to the paths a traversal returns, in the order    *)
(* the store returns them, for every topK of 0..MaxTopK                     *)

\* the relevance scores of the paths, in hundredths
PathScores == {70, 80, 130}

\* the lists of at most k scores
RECURSIVE ScoreLists(_)
ScoreLists(k) ==
    IF k = 0 THEN {<<>>}
    ELSE {<<>>} \cup {<<x>> \o s : x \in PathScores, s \in ScoreLists(k - 1)}

\* pathsToDocuments on paths with these scores: the j-th document is path_j
PathDocuments(scores) ==
    [j \in 1..Len(scores) |->
        PathDocument(j - 1, Str(20 + j, 233, "path " \o ToString(j)),
                     scores[j])]

InitRank ==
    /\ routeStats = NewRouteStatistics
    /\ pc = [p \in Procs |-> "off"]
    /\ loc = [p \in Procs |-> NoCall]
    /\ ncalls = [p \in Procs |-> 0]
    /\ routed = [p \in Procs |-> 0]
    /\ inputs = [queries |-> {}, topKs |-> {}, envs |-> {}]
    /\ arg \in [ documents : {PathDocuments(l) : l \in ScoreLists(MaxPaths)},
                 queryType : {MultiHop, EntityRelation, Clustering},
                 topK : 0..MaxTopK ]
    /\ res = NoRes
    /\ index = NewGraphIndexingModule
    /\ resultChan = NoChan
    /\ milvus = NewMilvusIndexConstructionModule

\* the documents the strategy of the plan yields, lines 655-682
Available == IF arg.queryType = Clustering THEN <<>> ELSE arg.documents

ApplyGraphRAGSearch ==
    /\ res.op = "none"
    /\ res' = [ op  |-> "GraphRAGSearch",
                out |-> GraphRAGSearch(
                            WithLLM(Env(<<>>, <<>>, arg.documents, FALSE),
                                    LLMParsed(arg.queryType, <<"ji">>, 2)),
                            MergeQuery, arg.topK) ]
    /\ UNCHANGED <<routeStats, pc, loc, ncalls, routed, inputs, arg, index, resultChan, milvus>>

NextRank == ApplyGraphRAGSearch

SpecRank == InitRank /\ [][NextRank]_vars

----------------------------------------------------------------------------
(* GenerationIntegrationModule.GenerateAdaptiveAnswerStream, statement by   *)
(* statement, run by one goroutine while the caller ranges over the result  *)
(* channel.  A stream delivers at most MaxChunks messages before it ends    *)
(* with EOF or with an error.                                               *)

Generator == 1

Consumer == 2

\* line 1029
DefaultMaxRetries == 3

\* the locals of the generator
NoStreamCall ==
    [ op |-> "none", maxRetries |-> 0, attempt |-> 0, chunks |-> 0,
      msg |-> "none", next |-> "none",
      attempts |-> 0,      \* history: Stream calls made
      failed |-> 0,        \* history: attempts that failed
      fallbacks |-> 0,     \* history: GenerateAdaptiveAnswer calls made
      returned |-> FALSE ]

InitStream ==
    /\ routeStats = NewRouteStatistics
    /\ pc = [p \in Procs |->
               IF p \in {Generator, Consumer} THEN "idle" ELSE "off"]
    /\ loc = [p \in Procs |-> NoStreamCall]
    /\ ncalls = [p \in Procs |-> 0]
    /\ routed = [p \in Procs |-> 0]
    /\ inputs = [queries |-> {}, topKs |-> {}, envs |-> {}]
    /\ arg \in [maxRetries : 0..MaxRetries, chatModelNil : BOOLEAN]
    /\ res = NoRes
    /\ index = NewGraphIndexingModule
    /\ resultChan = NoChan
    /\ milvus = NewMilvusIndexConstructionModule

\* resultChan <- msg, then the statement at next
SendThen(msg, next) ==
    /\ loc' = [loc EXCEPT ![Generator].msg = msg, ![Generator].next = next]
    /\ pc' = [pc EXCEPT ![Generator] = "gas_send"]

HasRetryLeftButOne(attempt, maxRetries) == attempt < maxRetries - 2

\* lines 1110 and 1148: attempt < maxRetries-1
HasRetryLeft(attempt, maxRetries) == attempt < maxRetries - 1

\* lines 1017-1031: the model is initialized when it is nil, and a
\* maxRetries of 0 becomes 3
GasStart ==
    /\ pc[Generator] = "idle"
    /\ ncalls[Generator] = 0
    /\ ncalls' = [ncalls EXCEPT ![Generator] = 1]
    /\ \E initErr \in IF arg.chatModelNil THEN BOOLEAN ELSE {FALSE} :
          LET call == [NoStreamCall EXCEPT
                          !.op = "GenerateAdaptiveAnswerStream",
                          !.maxRetries =
                              IF arg.maxRetries = 0 THEN DefaultMaxRetries
                              ELSE arg.maxRetries]
          IN  IF initErr
              THEN /\ loc' = [loc EXCEPT ![Generator] =
                                [call EXCEPT !.msg = "init_failure",
                                             !.next = "gas_return"]]
                   /\ pc' = [pc EXCEPT ![Generator] = "gas_send"]
              ELSE /\ loc' = [loc EXCEPT ![Generator] = call]
                   /\ pc' = [pc EXCEPT ![Generator] = "gas_loop"]
    /\ UNCHANGED <<routeStats, routed, inputs, arg, res, index, resultChan, milvus>>

\* a send on the channel: it blocks while the buffer is full
GasSend ==
    /\ pc[Generator] = "gas_send"
    /\ Len(resultChan.buf) < ChanCap
    /\ resultChan' = [resultChan EXCEPT
                         !.buf = Append(@, loc[Generator].msg),
                         !.last = loc[Generator].msg,
                         !.sendAfterClose = @ \/ resultChan.closed > 0]
    /\ pc' = [pc EXCEPT ![Generator] = loc[Generator].next]
    /\ UNCHANGED <<routeStats, loc, ncalls, routed, inputs, arg, res, index, milvus>>

\* lines 1098-1104: the loop condition and the message of the attempt
GasLoop ==
    /\ pc[Generator] = "gas_loop"
    /\ IF loc[Generator].attempt < loc[Generator].maxRetries
       THEN SendThen(IF loc[Generator].attempt = 0 THEN "start" ELSE "retry",
                     "gas_stream")
       ELSE /\ pc' = [pc EXCEPT ![Generator] = "gas_return"]
            /\ UNCHANGED loc
    /\ UNCHANGED <<routeStats, ncalls, routed, inputs, arg, res, index, resultChan, milvus>>

\* the end of a failed attempt, lines 1110-1130 and 1148-1166: the warning
\* and the next attempt, or the switch to the synchronous generation.  l is
\* the locals of the generator at that point.
GasAttemptFailed(l) ==
    /\ loc' = [loc EXCEPT ![Generator] =
                 IF HasRetryLeft(l.attempt, l.maxRetries)
                 THEN [l EXCEPT !.failed = @ + 1,
                                !.attempt = @ + 1,
                                !.chunks = 0,
                                !.msg = "warning",
                                !.next = "gas_loop"]
                 ELSE [l EXCEPT !.failed = @ + 1,
                                !.msg = "switch",
                                !.next = "gas_fallback"]]
    /\ pc' = [pc EXCEPT ![Generator] = "gas_send"]

\* line 1107: g.chatModel.Stream, which opens the stream or fails
GasStream ==
    /\ pc[Generator] = "gas_stream"
    /\ LET l == [loc[Generator] EXCEPT !.attempts = @ + 1]
       IN  \/ /\ loc' = [loc EXCEPT ![Generator] = l]
              /\ pc' = [pc EXCEPT ![Generator] = "gas_recv"]
           \/ GasAttemptFailed(l)
    /\ UNCHANGED <<routeStats, ncalls, routed, inputs, arg, res, index, resultChan, milvus>>

\* lines 1133-1146: one Recv: a message with content, a message without,
\* EOF, or an error
GasRecv ==
    /\ pc[Generator] = "gas_recv"
    /\ \/ /\ loc[Generator].chunks < MaxChunks
          /\ loc' = [loc EXCEPT ![Generator].chunks = @ + 1,
                                ![Generator].msg = "chunk",
                                ![Generator].next = "gas_recv"]
          /\ pc' = [pc EXCEPT ![Generator] = "gas_send"]
       \/ /\ loc[Generator].chunks < MaxChunks
          /\ loc' = [loc EXCEPT ![Generator].chunks = @ + 1]
          /\ UNCHANGED pc
       \/ /\ pc' = [pc EXCEPT ![Generator] = "gas_return"]
          /\ UNCHANGED loc
       \/ GasAttemptFailed(loc[Generator])
    /\ UNCHANGED <<routeStats, ncalls, routed, inputs, arg, res, index, resultChan, milvus>>

\* lines 1121-1128 and 1158-1165: GenerateAdaptiveAnswer, then its answer
\* or the failure message
GasFallback ==
    /\ pc[Generator] = "gas_fallback"
    /\ \E msg \in {"answer", "failure"} :
          loc' = [loc EXCEPT ![Generator].fallbacks = @ + 1,
                            ![Generator].msg = msg,
                            ![Generator].next = "gas_return"]
    /\ pc' = [pc EXCEPT ![Generator] = "gas_send"]
    /\ UNCHANGED <<routeStats, ncalls, routed, inputs, arg, res, index, resultChan, milvus>>

\* line 1018, defer close(resultChan), at every return
GasReturn ==
    /\ pc[Generator] = "gas_return"
    /\ resultChan' = [resultChan EXCEPT !.closed = @ + 1]
    /\ loc' = [loc EXCEPT ![Generator].returned = TRUE]
    /\ pc' = [pc EXCEPT ![Generator] = "done"]
    /\ UNCHANGED <<routeStats, ncalls, routed, inputs, arg, res, index, milvus>>

GeneratorStep ==
    \/ GasStart
    \/ GasSend
    \/ GasLoop
    \/ GasStream
    \/ GasRecv
    \/ GasFallback
    \/ GasReturn

\* the caller: for chunk := range resultChan
ConsumerRecv ==
    /\ pc[Consumer] = "idle"
    /\ resultChan.buf # <<>>
    /\ resultChan' = [resultChan EXCEPT !.buf = Tail(@)]
    /\ UNCHANGED <<routeStats, pc, loc, ncalls, routed, inputs, arg, res, index, milvus>>

\* the range loop ends when the channel is closed and drained
ConsumerDone ==
    /\ pc[Consumer] = "idle"
    /\ resultChan.buf = <<>>
    /\ resultChan.closed > 0
    /\ pc' = [pc EXCEPT ![Consumer] = "done"]
    /\ UNCHANGED <<routeStats, loc, ncalls, routed, inputs, arg, res, index, resultChan, milvus>>

NextStream == GeneratorStep \/ ConsumerRecv \/ ConsumerDone

\* both goroutines are scheduled as long as they can take a step
SpecStream ==
    /\ InitStream
    /\ [][NextStream]_vars
    /\ WF_vars(GeneratorStep)
    /\ WF_vars(ConsumerRecv \/ ConsumerDone)

----------------------------------------------------------------------------
(* MilvusIndexConstructionModule: the collection in the store and the       *)
(* flags of the module.  Every call of the store either takes effect or     *)
(* fails without effect; failAt names the store call of the operation that  *)
(* fails, "none" when none does.                                            *)

\* CreateCollection, lines 1470-1514
CreateCollection(m, forceRecreate, failAt) ==
    IF failAt \in {"setupClient", "HasCollection"}
    THEN [m |-> m, status |-> "err"]
    ELSE IF m.exists /\ ~forceRecreate
    THEN [m |-> [m EXCEPT !.collectionCreated = TRUE], status |-> "ok"]
    ELSE IF m.exists /\ failAt = "DropCollection"
    THEN [m |-> m, status |-> "err"]
    ELSE LET dropped == [m EXCEPT !.exists = FALSE]
         IN  IF failAt = "CreateCollection"
             THEN [m |-> dropped, status |-> "err"]
             ELSE [m |-> [dropped EXCEPT !.exists = TRUE,
                                         !.collectionCreated = TRUE,
                                         !.indexCreated = TRUE],
                   status |-> "ok"]

\* DeleteCollection, lines 1885-1908
DeleteCollection(m, failAt) ==
    IF failAt \in {"setupClient", "HasCollection"}
    THEN [m |-> m, status |-> "err"]
    ELSE IF ~m.exists THEN [m |-> m, status |-> "ok"]
    ELSE IF failAt = "DropCollection" THEN [m |-> m, status |-> "err"]
    ELSE [m |-> [m EXCEPT !.exists = FALSE,
                          !.collectionCreated = FALSE,
                          !.indexCreated = FALSE],
          status |-> "ok"]

\* LoadCollection, lines 1927-1949
LoadCollection(m, failAt) ==
    IF failAt \in {"setupClient", "HasCollection"}
    THEN [m |-> m, status |-> "err"]
    ELSE IF ~m.exists THEN [m |-> m, status |-> "err"]
    ELSE IF failAt = "LoadCollection" THEN [m |-> m, status |-> "err"]
    ELSE [m |-> [m EXCEPT !.collectionCreated = TRUE], status |-> "ok"]

\* the guard of SimilaritySearch (lines 1724-1726) and of AddDocuments
\* (lines 1700-1702)
PassesGuard(m) == m.collectionCreated

\* the module after construction; the store may hold the collection already
InitMilvus ==
    /\ routeStats = NewRouteStatistics
    /\ pc = [p \in Procs |-> "off"]
    /\ loc = [p \in Procs |-> NoCall]
    /\ ncalls = [p \in Procs |-> 0]
    /\ routed = [p \in Procs |-> 0]
    /\ inputs = [queries |-> {}, topKs |-> {}, envs |-> {}]
    /\ arg = "none"
    /\ res = NoRes
    /\ index = NewGraphIndexingModule
    /\ resultChan = NoChan
    /\ milvus \in {[NewMilvusIndexConstructionModule EXCEPT !.exists = e] :
                       e \in BOOLEAN}

\* one more call on the module: res keeps the call, its outcome and the
\* module before it
CallOnMilvus(op, input, out) ==
    /\ ncalls[1] < MaxMilvusOps
    /\ ncalls' = [ncalls EXCEPT ![1] = @ + 1]
    /\ milvus' = out.m
    /\ res' = [op |-> op, input |-> input, status |-> out.status,
               before |-> milvus]
    /\ UNCHANGED <<routeStats, pc, loc, routed, inputs, arg, index, resultChan>>

ApplyCreateCollection ==
    \E forceRecreate \in BOOLEAN,
       failAt \in {"none", "setupClient", "HasCollection", "DropCollection",
                   "CreateCollection"} :
        CallOnMilvus("CreateCollection",
                     [forceRecreate |-> forceRecreate, failAt |-> failAt],
                     CreateCollection(milvus, forceRecreate, failAt))

ApplyDeleteCollection ==
    \E failAt \in {"none", "setupClient", "HasCollection", "DropCollection"} :
        CallOnMilvus("DeleteCollection", [failAt |-> failAt],
                     DeleteCollection(milvus, failAt))

ApplyLoadCollection ==
    \E failAt \in {"none", "setupClient", "HasCollection", "LoadCollection"} :
        CallOnMilvus("LoadCollection", [failAt |-> failAt],
                     LoadCollection(milvus, failAt))

\* SimilaritySearch and AddDocuments up to their guard
ApplyGuardedCall ==
    \E op \in {"SimilaritySearch", "AddDocuments"} :
        CallOnMilvus(op, Nil,
            [m |-> milvus,
             status |-> IF PassesGuard(milvus) THEN "passed" ELSE "err"])

NextMilvus ==
    \/ ApplyCreateCollection
    \/ ApplyDeleteCollection
    \/ ApplyLoadCollection
    \/ ApplyGuardedCall

SpecMilvus == InitMilvus /\ [][NextMilvus]_vars

----------------------------------------------------------------------------
(* updateRouteStats called by one goroutine with any value of the string    *)
(* type SearchStrategy                                                      *)

\* the three strategies, the unset value and a value that is none of them
StrategyValues == {HybridTraditional, GraphRAG, Combined, "", "llm_based"}

\* updateRouteStats, lines 350-369, run without interruption
updateRouteStats(stats, strategy) ==
    LET counted == [stats EXCEPT !.TotalQueries = @ + 1]
        switched == IF CounterOf(strategy) = "" THEN counted
                    ELSE [counted EXCEPT ![CounterOf(strategy)] = @ + 1]
        total == switched.TotalQueries
    IN  IF total > 0
        THEN [switched EXCEPT
                !.TraditionalRatio = Ratio(switched.TraditionalCount, total),
                !.GraphRAGRatio = Ratio(switched.GraphRAGCount, total),
                !.CombinedRatio = Ratio(switched.CombinedCount, total)]
        ELSE switched

InitStats ==
    /\ routeStats = NewRouteStatistics
    /\ pc = [p \in Procs |-> "off"]
    /\ loc = [p \in Procs |-> NoCall]
    /\ ncalls = [p \in Procs |-> 0]
    /\ routed = [p \in Procs |-> 0]
    /\ inputs = [queries |-> {}, topKs |-> {}, envs |-> {}]
    /\ arg = "none"
    /\ res = NoRes
    /\ index = NewGraphIndexingModule
    /\ resultChan = NoChan
    /\ milvus = NewMilvusIndexConstructionModule

ApplyUpdateRouteStats ==
    /\ ncalls[1] < MaxUpdates
    /\ \E strategy \in StrategyValues :
          /\ routeStats' = updateRouteStats(routeStats, strategy)
          /\ res' = [op |-> "updateRouteStats", strategy |-> strategy,
                     before |-> routeStats,
                     dispatched |->
                         IF strategy \in {GraphRAG, Combined} THEN strategy
                         ELSE HybridTraditional]
    /\ ncalls' = [ncalls EXCEPT ![1] = @ + 1]
    /\ UNCHANGED <<pc, loc, routed, inputs, arg, index, resultChan, milvus>>

NextStats == ApplyUpdateRouteStats

SpecStats == InitStats /\ [][NextStats]_vars

----------------------------------------------------------------------------
(* Properties *)

\* the statements of updateRouteStats
UrsPcs ==
    {"urs_load_total", "urs_store_total", "urs_load_count",
     "urs_store_count", "urs_read_total", "urs_ratio"}

\* no goroutine is inside a call
AllReturned == \A p \in Procs : pc[p] \in {"idle", "off"}

RECURSIVE SumOver(_, _)
SumOver(f, S) ==
    IF S = {} THEN 0
    ELSE LET x == CHOOSE y \in S : TRUE IN f[x] + SumOver(f, S \ {x})

CounterSum(st) == st.TraditionalCount + st.GraphRAGCount + st.CombinedCount

\* the total is the sum of the counters and every ratio is its counter over
\* the total, 0 for a total of 0
StatsConsistent(st) ==
    /\ st.TotalQueries = CounterSum(st)
    /\ \A i \in 1..3 :
          /\ st.TotalQueries = 0 => st[RatioFields[i]] = <<0, 1>>
          /\ st.TotalQueries > 0 =>
                /\ st[RatioFields[i]][2] > 0
                /\ st[RatioFields[i]][1] * st.TotalQueries
                       = st[RatioCounters[i]] * st[RatioFields[i]][2]
                /\ GCD(st[RatioFields[i]][1], st[RatioFields[i]][2]) = 1

\* C1: with one caller after another, whenever no call is inside
\* updateRouteStats, TotalQueries is the sum of the three counters and each
\* ratio is its counter divided by TotalQueries (0 while TotalQueries is 0)
C1_StatsConsistent ==
    (\A p \in Procs : pc[p] \notin UrsPcs) => StatsConsistent(routeStats)

\* C1 witness: two calls have returned, one counted as combined and one as
\* graph_rag
C1_Witness ==
    /\ pc[1] = "idle"
    /\ routed[1] = 2
    /\ routeStats.TotalQueries = 2
    /\ routeStats.CombinedCount = 1
    /\ routeStats.GraphRAGCount = 1
    /\ routeStats.CombinedRatio = <<1, 2>>

\* C2: once all concurrent RouteQuery calls have returned, TotalQueries and
\* the sum of the three counters have grown by the number of calls
C2_NoLostUpdate ==
    AllReturned =>
        /\ routeStats.TotalQueries = SumOver(routed, Procs)
        /\ CounterSum(routeStats) = SumOver(routed, Procs)

\* C3: the value a GetRouteStatistics call returns is a consistent snapshot
C3_SnapshotConsistent ==
    \A p \in Procs :
        (loc[p].op = "GetRouteStatistics" /\ loc[p].returned)
            => StatsConsistent(loc[p].snapshot)

\* C4: a failed dispatch is followed by one fallback to HybridSearch, and a
\* failed fallback ends the call with a non-nil error
C4_FallbackFailureSurfaced ==
    \A p \in Procs :
        (loc[p].op = "RouteQuery" /\ loc[p].dispatch = "err") =>
            /\ pc[p] # "fallback" => loc[p].fallbacks = 1
            /\ loc[p].fallback \in {"err", "panic"} =>
                  /\ pc[p] # "panicked"
                  /\ loc[p].returned => ReturnedErr(p) # "nil"

\* the origin ids of a list of documents
Origins(docs) == {docs[i].origin : i \in 1..Len(docs)}

NoDuplicateOrigin(docs) ==
    \A i, j \in 1..Len(docs) : i # j => docs[i].origin # docs[j].origin

\* C5: the combined merge outputs no two documents with the same origin id
C5_CombinedNoDuplicateOrigin ==
    (res.op = "executeCombinedSearch" /\ res.out.status = "ok")
        => NoDuplicateOrigin(res.out.docs)

\* C6: HybridSearch outputs no two documents of the same entity
C6_HybridNoDuplicateOrigin ==
    (res.op = "HybridSearch" /\ res.out.status = "ok")
        => NoDuplicateOrigin(res.out.docs)

\* a document without the annotations of the merge
Item(doc) == <<doc.origin, doc.Content>>

Items(docs) == [i \in 1..Len(docs) |-> Item(docs[i])]

\* the round-robin sequence of the claim: at each position first[i], then
\* second[i], skipping an item whose origin id was already emitted
RECURSIVE RoundRobinByOrigin(_, _, _, _)
RoundRobinByOrigin(out, first, second, i) ==
    IF i > Max(Len(first), Len(second)) THEN out
    ELSE
        LET o1 == IF i <= Len(first)
                     /\ first[i].origin \notin {out[j][1] : j \in 1..Len(out)}
                  THEN Append(out, Item(first[i])) ELSE out
            o2 == IF i <= Len(second)
                     /\ second[i].origin \notin {o1[j][1] : j \in 1..Len(o1)}
                  THEN Append(o1, Item(second[i])) ELSE o1
        IN  RoundRobinByOrigin(o2, first, second, i + 1)

FirstK(s, k) == SubSeq(s, 1, Min(k, Len(s)))

\* C7: the output of HybridSearch and of the combined merge is the first
\* topK items of the round-robin sequence with origin-id deduplication
C7_RoundRobinOrder ==
    /\ (res.op = "HybridSearch" /\ res.out.status = "ok") =>
          Items(res.out.docs)
              = FirstK(RoundRobinByOrigin(<<>>, res.dual, res.vector, 1),
                       arg.topK)
    /\ (res.op = "executeCombinedSearch" /\ res.out.status = "ok") =>
          Items(res.out.docs)
              = FirstK(RoundRobinByOrigin(<<>>, res.graph, res.traditional, 1),
                       arg.topK)

\* C8: HybridSearch returns min(topK, distinct origin ids) documents
C8_HybridCount ==
    (res.op = "HybridSearch" /\ res.out.status = "ok") =>
        Len(res.out.docs)
            = Min(arg.topK,
                  Cardinality(Origins(res.dual) \cup Origins(res.vector)))

\* C9: with c complexity cues of 9 and r relation cues of 8 contained in the
\* query, the analysis reports c/9 and r/8 and selects graph_rag with
\* confidence 0.8 when c/9 > 0.5 or r/8 > 0.5, else combined with 0.7 when
\* c/9 > 0.3 or r/8 > 0.3, else hybrid_traditional with 0.6
C9_StrategySelection ==
    res.op = "ruleBasedAnalysis" =>
        LET c == CountHits(arg, complexityKeywords)
            r == CountHits(arg, relationKeywords)
            high == 2 * c > 9 \/ 2 * r > 8
            mid == 10 * c > 3 * 9 \/ 10 * r > 3 * 8
            a == res.out
        IN  /\ a.QueryComplexity[1] * 9 = c * a.QueryComplexity[2]
            /\ a.RelationshipIntensity[1] * 8 = r * a.RelationshipIntensity[2]
            /\ high =>
                  a.RecommendedStrategy = "graph_rag" /\ a.Confidence = 80
            /\ (~high /\ mid) =>
                  a.RecommendedStrategy = "combined" /\ a.Confidence = 70
            /\ (~high /\ ~mid) =>
                  /\ a.RecommendedStrategy = "hybrid_traditional"
                  /\ a.Confidence = 60

\* C9 witness: a query with 5 relation cues is analysed as graph_rag
C9_Witness ==
    /\ res.op = "ruleBasedAnalysis"
    /\ CountHits(arg, relationKeywords) = 5
    /\ CountHits(arg, complexityKeywords) = 0
    /\ res.out.RecommendedStrategy = "graph_rag"

\* a query without complexity cue and with exactly one relation cue
SingleRelationCue(query) ==
    /\ CountHits(query, complexityKeywords) = 0
    /\ CountHits(query, relationKeywords) = 1

\* C10 as stated: such a query has a positive relationIntensity and is
\* routed as combined
C10_RoutedCombined ==
    \A p \in Procs :
        (loc[p].op = "RouteQuery" /\ SingleRelationCue(loc[p].query)) =>
            /\ loc[p].analysis.RelationshipIntensity[1] > 0
            /\ loc[p].analysis.RecommendedStrategy = "combined"

\* C10 amended: such a query has relationIntensity 1/8, is routed as
\* hybrid_traditional with confidence 0.6, and the documents RouteQuery
\* returns are the annotated round-robin merge HybridSearch makes of the
\* dual-level and the vector results for topK
C10_RoutedHybrid ==
    \A p \in Procs :
        (loc[p].op = "RouteQuery" /\ SingleRelationCue(loc[p].query)) =>
            /\ loc[p].analysis.RelationshipIntensity = <<1, 8>>
            /\ loc[p].analysis.RecommendedStrategy = "hybrid_traditional"
            /\ loc[p].analysis.Confidence = 60
            /\ loc[p].returned =>
                  /\ loc[p].fallbacks = 0
                  /\ Items(loc[p].documents) =
                        Items(HybridMerge(
                            DualLevelDocuments(loc[p].env.unique,
                                               loc[p].topK),
                            VectorSearchEnhanced(loc[p].env.matches,
                                                 loc[p].topK),
                            loc[p].topK))
                  /\ \A i \in 1..Len(loc[p].documents) :
                        loc[p].documents[i].MetaData["route_strategy"]
                            = "hybrid_traditional"

\* C10 witness: RouteQuery has returned three documents for the query
\* "ji rou pei shen me shu cai ?"
C10_Witness ==
    /\ loc[1].op = "RouteQuery"
    /\ loc[1].query = ScenarioAQuery
    /\ loc[1].returned
    /\ Len(loc[1].documents) = 3

\* the counters of routeStats
CounterFields ==
    {"TraditionalCount", "GraphRAGCount", "CombinedCount", "TotalQueries"}

\* the statements of RouteQuery after the call of updateRouteStats
AfterUpdatePcs == {"dispatch", "fallback", "postprocess", "panicked"}

\* the counters are those of st, with TotalQueries and the counter of
\* strategy one higher
CountedOnce(st, strategy) ==
    \A f \in CounterFields :
        routeStats[f] =
            st[f] + (IF f \in {"TotalQueries", CounterOf(strategy)}
                     THEN 1 ELSE 0)

\* C11: with the calls one after another, from the dispatch on and after
\* the return (dispatch succeeded, returned an error and was replaced by the
\* hybrid fallback, or panicked) the statistics are those of the start of
\* the call with TotalQueries and the counter of the strategy the analysis
\* decided one higher, the dispatch is reached only through
\* updateRouteStats, and no step decreases a counter.
C11_CountsDecision ==
    /\ [](\A p \in Procs :
            /\ loc[p].op = "RouteQuery"
            /\ pc[p] \in AfterUpdatePcs \/ loc[p].returned
            => CountedOnce(loc[p].before,
                           loc[p].analysis.RecommendedStrategy))
    /\ [][ /\ \A f \in CounterFields : routeStats'[f] >= routeStats[f]
           /\ \A p \in Procs :
                 pc'[p] = "dispatch" /\ pc[p] # "dispatch"
                 => pc[p] \in UrsPcs ]_vars

\* a call decided graph retrieval, the dispatch returned an error, the
\* hybrid fallback produced the documents and the call returned: the
\* GraphRAGCount is counted, the TraditionalCount is not
C11_Witness ==
    /\ loc[1].op = "RouteQuery"
    /\ loc[1].returned
    /\ loc[1].analysis.RecommendedStrategy = GraphRAG
    /\ loc[1].dispatch = "err"
    /\ loc[1].fallbacks = 1
    /\ Len(loc[1].documents) > 0
    /\ routeStats.GraphRAGCount = loc[1].before.GraphRAGCount + 1
    /\ routeStats.TraditionalCount = loc[1].before.TraditionalCount

\* a RouteQuery call of goroutine p that has returned
Returned(p) == loc[p].op = "RouteQuery" /\ loc[p].returned

\* C12: a RouteQuery call that decided graph retrieval while the driver is
\* nil returns the empty, non-nil list GraphRAGSearch returned (no fallback
\* ran), the analysis of the query with strategy graph retrieval, and a nil
\* error.
C12_NoDriverDegrades ==
    \A p \in Procs :
        /\ Returned(p)
        /\ loc[p].analysis.RecommendedStrategy = GraphRAG
        /\ ~loc[p].env.driver
        => /\ loc[p].dispatch = "ok"
           /\ loc[p].fallbacks = 0
           /\ loc[p].documents = <<>>
           /\ ~loc[p].documentsNil
           /\ ReturnedErr(p) = "nil"
           /\ loc[p].analysis.RecommendedStrategy = GraphRAG
           /\ loc[p].analysis.Confidence = 80
           /\ loc[p].analysis.QueryComplexity[1] * 2
                 > loc[p].analysis.QueryComplexity[2]

\* a graph-retrieval call has returned while the driver is nil, although
\* the hybrid retrieval would have found an entity
C12_Witness ==
    /\ Returned(1)
    /\ loc[1].analysis.RecommendedStrategy = GraphRAG
    /\ ~loc[1].env.driver
    /\ loc[1].env.unique # <<>>
    /\ loc[1].documents = <<>>

RouteAnnotations == {"route_strategy", "query_complexity", "route_confidence"}

\* C16: every document a RouteQuery call returns has route_strategy,
\* query_complexity and route_confidence of the returned analysis, and is
\* otherwise the document as it was before the annotation: the same id and
\* content, and the same value under every other annotation (node_id,
\* node_type, retrieval_level, ...), none added and none removed.
C16_AnnotationFrame ==
    \A p \in Procs :
        Returned(p)
        => /\ Len(loc[p].documents) = Len(loc[p].raw)
           /\ \A i \in 1..Len(loc[p].documents) :
                 LET doc == loc[p].documents[i]
                     old == loc[p].raw[i]
                 IN  /\ doc.MetaData["route_strategy"]
                           = loc[p].analysis.RecommendedStrategy
                     /\ doc.MetaData["query_complexity"]
                           = loc[p].analysis.QueryComplexity
                     /\ doc.MetaData["route_confidence"]
                           = loc[p].analysis.Confidence
                     /\ doc.ID = old.ID
                     /\ doc.Content = old.Content
                     /\ doc.origin = old.origin
                     /\ DOMAIN doc.MetaData
                           = DOMAIN old.MetaData \cup RouteAnnotations
                     /\ RouteAnnotations \cap DOMAIN old.MetaData = {}
                     /\ \A k \in DOMAIN old.MetaData :
                           doc.MetaData[k] = old.MetaData[k]

\* a call returned a dual-level document, which has node_id, node_type and
\* retrieval_level, and a document without node_id
C16_Witness ==
    /\ Returned(1)
    /\ \E i, j \in 1..Len(loc[1].documents) :
          /\ "node_id" \in DOMAIN loc[1].raw[i].MetaData
          /\ "retrieval_level" \in DOMAIN loc[1].raw[i].MetaData
          /\ loc[1].documents[i].MetaData["node_id"]
                = loc[1].raw[i].MetaData["node_id"]
          /\ "node_id" \notin DOMAIN loc[1].raw[j].MetaData
          /\ "route_strategy" \in DOMAIN loc[1].documents[j].MetaData

\* C13: whatever the LLM call yields (an error, an output that is no JSON,
\* an empty output, a parsed plan with any integer max_depth), the query
\* understanding returns no error and a plan with MaxDepth >= 1 and
\* MaxNodes >= 1.
C13_PlanAlwaysValid ==
    res.op = "UnderstandGraphQuery" /\ ~arg.formatErr
    => /\ res.out.status = "ok"
       /\ res.out.plan.MaxDepth >= 1
       /\ res.out.plan.MaxNodes >= 1

\* C14: the depth of the pattern a traversal query is built with never
\* exceeds the ceiling, and the node budget never exceeds the 50 of the
\* default plan, whatever max_depth the LLM returned.
C14_DepthCapped ==
    res.op \in {"MultiHopTraversal", "ExtractKnowledgeSubgraph"}
    => /\ res.pattern.hi <= DepthCeiling
       /\ res.plan.MaxNodes <= 50

\* the keys of a key map
Keys(keyMap) == DOMAIN keyMap

\* the ids a key map lists under key, as a set
IdsOf(keyMap, key) ==
    {Lookup(keyMap, key, <<>>)[i] : i \in 1..Len(Lookup(keyMap, key, <<>>))}

\* no id is listed twice under a key
NoRepeatedId(keyMap) ==
    \A key \in Keys(keyMap) :
        \A i, j \in 1..Len(keyMap[key]) :
            keyMap[key][i] = keyMap[key][j] => i = j

\* C17: after ImportFromJSON of the export of the index, every key the
\* index had before yields the same entities and the same relations.
C17_ExportImportRoundTrip ==
    res.op = "ImportFromJSON"
    => /\ \A key \in Keys(res.before.keyToEntities) :
             GetEntitiesByKey(index, key)
                 = GetEntitiesByKey(res.before, key)
       /\ \A key \in Keys(res.before.keyToRelations) :
             GetRelationsByKey(index, key)
                 = GetRelationsByKey(res.before, key)

\* every id under a key is stored and its entry lists the key
MapAgrees(keyMap, store) ==
    \A key \in Keys(keyMap) :
        /\ keyMap[key] # <<>>
        /\ \A id \in IdsOf(keyMap, key) :
              /\ id \in DOMAIN store
              /\ \E i \in 1..Len(store[id].IndexKeys) :
                    store[id].IndexKeys[i] = key

\* C18: after every call the ids listed under a key of keyToEntities
\* (keyToRelations) are stored in entityKVStore (relationKVStore) with that
\* key among their IndexKeys.
C18_KeyMapsAgreeWithStores ==
    /\ MapAgrees(index.keyToEntities, index.entityKVStore)
    /\ MapAgrees(index.keyToRelations, index.relationKVStore)

\* the two key maps of idx list the same ids under the same keys as those
\* of old
SameMappings(idx, old) ==
    /\ Keys(idx.keyToEntities) = Keys(old.keyToEntities)
    /\ Keys(idx.keyToRelations) = Keys(old.keyToRelations)
    /\ \A key \in Keys(idx.keyToEntities) :
          IdsOf(idx.keyToEntities, key) = IdsOf(old.keyToEntities, key)
    /\ \A key \in Keys(idx.keyToRelations) :
          IdsOf(idx.keyToRelations, key) = IdsOf(old.keyToRelations, key)

\* C19: a call that builds or rebuilds the index a second time in a row
\* from the same data (the same Create call with the same input again, or
\* a rebuilding call after a rebuilding call on unchanged stores) leaves
\* every key with the same ids, each listed once.
C19_RebuildIdempotent ==
    /\ res.op \in {"CreateEntityKeyValues", "CreateRelationKeyValues"}
          \cup RebuildOps
    /\ res.again
    /\ res.op \in RebuildOps
          => /\ index.entityKVStore = res.before.entityKVStore
             /\ index.relationKVStore = res.before.relationKVStore
    => /\ SameMappings(index, res.before)
       /\ NoRepeatedId(index.keyToEntities)
       /\ NoRepeatedId(index.keyToRelations)

\* what the call of the reader returns on the index idx
ReadOn(idx) ==
    IF loc[Reader].op = "GetEntitiesByKey"
    THEN GetEntitiesByKey(idx, loc[Reader].key)
    ELSE GetRelationsByKey(idx, loc[Reader].key)

\* C20: a read of the index is never stopped by a concurrent rebuild, and
\* once the reader has returned and no rebuild is under way, what it
\* returned is what the same call returns on the index before the rebuild
\* or on the index after it.
C20_ReaderSeesSnapshot ==
    /\ pc[Reader] # "panicked"
    /\ /\ loc[Reader].op \in {"GetEntitiesByKey", "GetRelationsByKey"}
       /\ loc[Reader].returned
       /\ pc[Writer] \in {"idle", "done"}
       => \/ loc[Reader].result = ReadOn(arg)
          \/ loc[Reader].result = ReadOn(index)

\* a RouteQuery call of goroutine p that has begun and has not returned
InRouteQuery(p) == loc[p].op = "RouteQuery" /\ ~loc[p].returned

\* C21: every RouteQuery call that has begun returns, whatever the
\* retrieval calls do, and no call makes more than one fallback retrieval.
C21_RouteQueryTerminates ==
    /\ \A p \in Procs : InRouteQuery(p) ~> Returned(p)
    /\ [](\A p \in Procs : loc[p].fallbacks <= 1)

\* C22: for topK >= 1 the combined search asks the hybrid retrieval for
\* max(1, topK / 2) documents and the graph retrieval for the rest, so the
\* two add up to topK with at least 1 and at least 0; the list it returns
\* has at most topK documents.
C22_TopKSplit ==
    (res.op = "executeCombinedSearch" /\ arg.topK >= 1)
    => /\ res.traditionalK = Max(1, arg.topK \div 2)
       /\ res.graphK = arg.topK - res.traditionalK
       /\ res.traditionalK + res.graphK = arg.topK
       /\ res.traditionalK >= 1
       /\ res.graphK >= 0
       /\ res.out.status = "ok" => Len(res.out.docs) <= arg.topK

\* an odd topK of 3 is split 1 + 2, and the merge is cut to topK
C22_Witness ==
    /\ res.op = "executeCombinedSearch"
    /\ arg.topK = 3
    /\ res.traditionalK = 1
    /\ res.graphK = 2
    /\ res.out.status = "ok"
    /\ Len(res.out.docs) = 3

\* the scores of a list of documents are in descending order
Descending(docs) ==
    \A i \in 1..Len(docs) - 1 : ScoreOf(docs[i]) >= ScoreOf(docs[i + 1])

\* C23: for topK >= 0, GraphRAGSearch returns no error and exactly
\* min(topK, available) documents, each an available document returned
\* once, in descending order of score, and no document left out has a
\* higher score than one returned.
C23_RankedAndTruncated ==
    (res.op = "GraphRAGSearch" /\ arg.topK >= 0)
    => /\ res.out.status = "ok"
       /\ Len(res.out.docs) = Min(arg.topK, Len(Available))
       /\ Descending(res.out.docs)
       /\ \A i \in 1..Len(res.out.docs) :
             \E j \in 1..Len(Available) : res.out.docs[i] = Available[j]
       /\ \A i, j \in 1..Len(res.out.docs) :
             i # j => res.out.docs[i].ID # res.out.docs[j].ID
       /\ \A j \in 1..Len(Available) :
             (\A i \in 1..Len(res.out.docs) : res.out.docs[i] # Available[j])
             => \A i \in 1..Len(res.out.docs) :
                    ScoreOf(res.out.docs[i]) >= ScoreOf(Available[j])

\* three paths returned in ascending order of score with topK 4: all three
\* come back, the best first
C23_Witness ==
    /\ res.op = "GraphRAGSearch"
    /\ arg.topK = 4
    /\ Len(arg.documents) = 3
    /\ ScoreOf(arg.documents[1]) < ScoreOf(arg.documents[2])
    /\ ScoreOf(arg.documents[2]) < ScoreOf(arg.documents[3])
    /\ arg.queryType = MultiHop
    /\ Len(res.out.docs) = 3
    /\ res.out.docs[1] = arg.documents[3]

\* C24: DualLevelRetrieval returns at most topK documents, in descending
\* order of score, no two for the same node id, and each is the document
\* of a found result whose score is the highest among the found results
\* of its node id.
C24_DualLevelDeduplicated ==
    res.op = "DualLevelRetrieval"
    => /\ Len(res.out) <= arg.topK
       /\ Descending(res.out)
       /\ \A i, j \in 1..Len(res.out) :
             i # j => res.out[i].MetaData.node_id # res.out[j].MetaData.node_id
       /\ \A i \in 1..Len(res.out) :
             /\ \E k \in 1..Len(res.found) :
                   res.out[i] = DualDocument(res.found[k])
             /\ \A k \in 1..Len(res.found) :
                   res.found[k].NodeID = res.out[i].MetaData.node_id
                   => res.found[k].RelevanceScore <= ScoreOf(res.out[i])

\* n1 is found by both levels and by the store, n2 by the topic level:
\* n1 is returned once, as the entity-level result, before n2
C24_Witness ==
    /\ res.op = "DualLevelRetrieval"
    /\ arg.topK = 3
    /\ arg.entityIndex = <<"n1">>
    /\ arg.entityStore = <<"n1">>
    /\ arg.topicIndex = <<"n2", "n1">>
    /\ Len(res.found) = 4
    /\ Len(res.out) = 2
    /\ res.out[1] = DualDocument(EntityResult(entityCache["n1"]))
    /\ res.out[2].MetaData.node_id = "n2"

\* the call of the generator has returned
StreamReturned ==
    /\ loc[Generator].op = "GenerateAdaptiveAnswerStream"
    /\ loc[Generator].returned

\* the maxRetries in force: 3 for 0
RetriesInForce ==
    IF arg.maxRetries = 0 THEN DefaultMaxRetries ELSE arg.maxRetries

\* C25: the stream generation makes at most maxRetries stream attempts (3
\* for 0), makes the synchronous fallback exactly once when every allowed
\* attempt has failed and never otherwise, ends after a fallback with the
\* answer or the failure message as its last send, never sends after the
\* close, closes the channel exactly once, and always returns.
C25_StreamRetriesBounded ==
    /\ [](loc[Generator].op = "GenerateAdaptiveAnswerStream"
          => /\ loc[Generator].attempts <= RetriesInForce
             /\ loc[Generator].fallbacks <= 1
             /\ resultChan.closed <= 1
             /\ ~resultChan.sendAfterClose
             /\ loc[Generator].fallbacks = 1
                   => loc[Generator].failed = RetriesInForce
             /\ StreamReturned
                   => /\ resultChan.closed = 1
                      /\ loc[Generator].failed = RetriesInForce
                            => loc[Generator].fallbacks = 1
                      /\ loc[Generator].fallbacks = 1
                            => resultChan.last \in {"answer", "failure"})
    /\ <>StreamReturned

\* maxRetries 0: three attempts fail, the fallback answers, the channel is
\* closed
C25_Witness ==
    /\ StreamReturned
    /\ arg.maxRetries = 0
    /\ loc[Generator].attempts = 3
    /\ loc[Generator].failed = 3
    /\ loc[Generator].fallbacks = 1
    /\ resultChan.last = "answer"
    /\ resultChan.closed = 1

\* the k-th document offered to the combined merge is emitted: the merged
\* list, cut to topK or not, holds its content
Emitted(k) ==
    \E i \in 1..Len(res.out.docs) :
        res.out.docs[i].Content = res.offered[k].Content

\* C26: when the merged list is shorter than topK (nothing was cut off),
\* every offered document whose content differs from the content of every
\* document emitted before it is in the merged list.
C26_OnlyDuplicatesDropped ==
    (/\ res.op = "executeCombinedSearch"
     /\ res.out.status = "ok"
     /\ Len(res.out.docs) < arg.topK)
    => \A k \in 1..Len(res.offered) :
          (\A j \in 1..(k - 1) :
              Emitted(j) => res.offered[j].Content # res.offered[k].Content)
          => Emitted(k)

\* C27: executeCombinedSearch returns a merged list, and does not fail, for
\* every pair of result lists, documents with an empty content included.
C27_CombinedSearchTotal ==
    res.op = "executeCombinedSearch" => res.out.status = "ok"

\* C28: right after DeduplicateEntitiesAndRelations no two entities share a
\* name, no two relations share a (source, target, type) signature, the
\* source and the target of every relation are ids of stored entities, and
\* a second deduplication leaves both stores as they are.
C28_DeduplicationKeepsIntegrity ==
    res.op = "DeduplicateEntitiesAndRelations"
    => LET es == index.entityKVStore
           rs == index.relationKVStore
       IN  /\ \A a, b \in DOMAIN es :
                 es[a].EntityName = es[b].EntityName => a = b
           /\ \A a, b \in DOMAIN rs :
                 RelationSignature(rs[a]) = RelationSignature(rs[b]) => a = b
           /\ \A r \in DOMAIN rs :
                 /\ rs[r].SourceEntity \in DOMAIN es
                 /\ rs[r].TargetEntity \in DOMAIN es
           /\ \A eo \in Perms(DOMAIN es), ro \in Perms(DOMAIN rs) :
                 LET again == DeduplicatedStores(index, eo, ro)
                 IN  /\ again.entityKVStore = es
                     /\ again.relationKVStore = rs

\* C29: collectionCreated is true only if the collection exists in the
\* store, so a SimilaritySearch or AddDocuments call passes its guard only
\* when the collection exists.
C29_CreatedImpliesExists ==
    /\ milvus.collectionCreated => milvus.exists
    /\ (res.op \in {"SimilaritySearch", "AddDocuments"}
        /\ res.status = "passed") => milvus.exists

============================================================================
